---------------------------- MODULE Spec2Model ----------------------------
(***************************************************************************)
(* Transfer orchestration pipeline of flickr-to-google-cli.                *)
(*                                                                         *)
(* FlickrToGoogleTransfer (transferAlbums / transferAlbum /                *)
(* processPhotoBatch) drives the source catalog (FlickrService) and the    *)
(* destination client (GooglePhotosService.createAlbum / uploadPhoto /     *)
(* addPhotosToAlbum / addBatchOfPhotosToAlbum).  Every await of the code is*)
(* one action; what a collaborator answers (success, failure, the id the   *)
(* destination assigns) is chosen by the environment in that action.       *)
(*                                                                         *)
(* The repository holds three revisions of FlickrToGoogleTransfer; the     *)
(* variable revision says which one runs:                                  *)
(*   "paced"    no job records, a pause between chunks, dry-run creates no *)
(*              album (unnamed/part_013, lines 307-494)                    *)
(*   "tracked"  a job record saved per album and per chunk, no pause       *)
(*              (unnamed/part_013, lines 506-794)                          *)
(*   "legacy"   job records, createAlbum whatever dryRun says, and a       *)
(*              metadata update after every upload                         *)
(*              (src/transfer/FlickrToGoogleTransfer.ts)                   *)
(*                                                                         *)
(* Spec            a transferAlbums run of the paced revision              *)
(* SpecTracked     a transferAlbums run of the tracked revision            *)
(* SpecLegacy      a transferAlbums run of the legacy revision             *)
(* SpecMembership  addPhotosToAlbum applied to id lists long enough to     *)
(*                 need several membership windows, called on its own or   *)
(*                 from transferAlbum's membership step                    *)
(* SpecCalls       the paced and tracked runs with every call issued and   *)
(*                 settled in separate steps                               *)
(* SpecDescription createGoogleDescription applied to pairs of texts       *)
(* SpecExport      the tracked run on what getAlbumDetails reads from a    *)
(*                 bulk export (id '0', photos without metadata)           *)
(* SpecCommandLine the transfer command's --batch-size, parsed, defaulted  *)
(* SpecCli         the commands transfer and list-albums, to the exit code *)
(* SpecJobs        the tracked run followed by checkTransferStatus         *)
(* SpecAlbumDescription  the legacy run on albums that carry a description *)
(* SpecResume      the tracked run of one album, invoked again when failed *)
(* SpecTermination the paced run with the event loop never stalling        *)
(*                                                                         *)
(* Besides the pipeline, the account operations around it:                 *)
(* SpecHandshake   HapiOAuthHandler.getAuthCode: the loopback callback     *)
(*                 server, its timeout and the callbacks it gets           *)
(* SpecHandshakeEarlier  the same for the earlier HapiOAuthHandler and     *)
(*                 OAuthCallbackHandler, the event loop never stalling     *)
(* SpecFlickrOAuth FlickrService's OAuth server: handleOAuthStart and      *)
(*                 handleOAuthCallback, interleaved at their awaits        *)
(* SpecGate        GooglePhotosService: ensureAuthenticated before the     *)
(*                 requests of makeRequest and uploadPhoto                 *)
(* SpecAuthenticate  ConfigManager.authenticate and the configuration file *)
(***************************************************************************)
EXTENDS Integers, Sequences, FiniteSets, TLC

VARIABLES
    revision,         \* which revision of FlickrToGoogleTransfer runs
    catalog,          \* the albums the source holds (FlickrService's data)
    options,          \* TransferOptions of the run
    pc,               \* position of the run in the code
    error,            \* what transferAlbums / addPhotosToAlbum rejected with
    albums,           \* transferAlbums: the resolved album list
    k,                \* transferAlbums: index of the album being transferred
    googleAlbum,      \* transferAlbum: destination album (Null or its id)
    i,                \* transferAlbum: offset of the chunk loop
    photoIds,         \* transferAlbum: ids collected so far
    processedPhotos,  \* transferAlbum (paced): progress reported after a chunk
    job,              \* transferAlbum (tracked, legacy): the TransferJob in memory
    batch,            \* processPhotoBatch: the chunk (argument photos)
    j,                \* processPhotoBatch: index of the current photo
    batchPhotoIds,    \* processPhotoBatch: its local photoIds
    googlePhotoId,    \* processPhotoBatch (legacy): the id uploadPhoto returned
    uniquePhotoIds,   \* addPhotosToAlbum: the deduplicated argument
    w,                \* addPhotosToAlbum: offset of the window loop
    log,              \* history: every call made, in order
    started,          \* history: how many calls were issued
    flickrName,       \* createGoogleDescription: its first argument
    flickrDescription,\* createGoogleDescription: its second argument
    googleDescription,\* createGoogleDescription: what it returned
    credentials,      \* what .flickr-to-google.json holds for the destination
    batchSizeArg,     \* transfer command: the text given to --batch-size, if any
    parsedBatchSize,  \* transfer command: parsedOptions.batchSize
    batchSize,        \* transferAlbum: const batchSize of the options so built
    reported,         \* checkTransferStatus: what it reported
    command,          \* the command of the command line that runs, if any
    processExit,      \* whether the process has ended, and its exit code
    resumed,          \* history: where the second run of the command began
    handlerClass,     \* which OAuth callback handler class getAuthCode is of
    handler,          \* its fields: server, timeoutId, resolvePromise, rejectPromise
    promise,          \* the promise getAuthCode returned
    timer,            \* the timeout timer of the event loop
    chain,            \* position of createServer(port).then(openBrowser)
    listener,         \* the callback server, as the system sees it
    accepted,         \* callback requests accepted, their handler not yet run
    events,           \* history: completion events of the handshake, in order
    currentRequestToken, \* FlickrService: the request token (and secret) kept
    oauthTokens,      \* FlickrService: the OAuth tokens it works with
    flights,          \* FlickrService: the OAuth server's requests, each at its await
    issued,           \* how many request tokens Flickr has issued
    oauthTrace,       \* history: what the OAuth server's handlers did
    auth,             \* GooglePhotosService: credentials of its OAuth2Client
    clock,            \* Date.now()
    gate,             \* GooglePhotosService: the method running, at its await
    gateCalls,        \* how many of its methods were called
    gateTrace,        \* history: what its methods did
    configFile,       \* ConfigManager: what .flickr-to-google.json holds
    authentication,   \* ConfigManager.authenticate: where it is, its config and tokens
    authCalls,        \* how many times authenticate was called
    authTrace         \* history: what authenticate did to the file

vars == << revision, catalog, options, pc, error, albums, k, googleAlbum, i,
           photoIds, processedPhotos, job, batch, j, batchPhotoIds,
           googlePhotoId, uniquePhotoIds, w, log, started, flickrName,
           flickrDescription, googleDescription, credentials, batchSizeArg,
           parsedBatchSize, batchSize, reported, command, processExit,
           resumed, handlerClass, handler, promise, timer, chain, listener,
           accepted, events, currentRequestToken, oauthTokens, flights, issued,
           oauthTrace,
           auth, clock, gate, gateCalls, gateTrace,
           configFile, authentication, authCalls, authTrace >>

---------------------------------------------------------------------------
(* Bounds of the model *)

MaxAlbums == 2
MaxPhotos == 3
MaxBatch == 2
MaxIds == 101
MaxText == 2

(* Program constants *)

DefaultBatchSize == 10
MembershipBatchSize == 50

---------------------------------------------------------------------------
(* Values *)

Null == 0
NoAlbumId == 0
\* an album id no album of the catalog has
MissingAlbumId == MaxAlbums + 1

\* The ids the destination may answer an upload with; two uploads of
\* byte-identical content get the same id.
DestIds == {1, 2}

MediaId(n) == [kind |-> "media", id |-> n]

\* Mutant: the placeholder does not name the photo
DryRunId_Anonymous(photoId) == [kind |-> "dry_run", id |-> 0]

\* `dry_run_${photo.id}`
DryRunId(photoId) == [kind |-> "dry_run", id |-> photoId]

Min(a, b) == IF a < b THEN a ELSE b

\* Array.prototype.slice(from, to) for 0 <= from <= to
Slice(s, from, to) == SubSeq(s, from + 1, Min(to, Len(s)))

Range(s) == { s[x] : x \in 1..Len(s) }

RECURSIVE SumSeq(_)
SumSeq(s) == IF s = << >> THEN 0 ELSE Head(s) + SumSeq(Tail(s))

\* Number of photos of the albums before album a
Offset(sizes, a) == SumSeq(SubSeq(sizes, 1, a - 1))

\* a value of type string | undefined
Undefined == [defined |-> FALSE, text |-> << >>]
Str(text) == [defined |-> TRUE, text |-> text]

\* A photo: its id, and whether it carries metadata
\* (photo.description || (photo.latitude && photo.longitude))
Photo(id, described) == [id |-> id, described |-> described]

\* Album a of a catalog whose albums hold sizes[1], sizes[2], ... photos;
\* photo p is described iff p \in described.  The album's own description
\* is empty unless WithDescription gives it one.
Album(sizes, a, described) ==
    [ id          |-> a,
      description |-> Str(<< >>),
      photos      |-> [x \in 1..sizes[a] |->
                    Photo(Offset(sizes, a) + x, (Offset(sizes, a) + x) \in described)] ]

CatalogOf(sizes, described) ==
    [a \in 1..Len(sizes) |-> Album(sizes, a, described)]

CatalogShapes ==
    { s \in UNION { [1..n -> 0..MaxPhotos] : n \in 0..MaxAlbums } :
        SumSeq(s) <= MaxPhotos }

\* albumData.description: missing, empty, blank, or a text
AlbumDescriptions == { Undefined, Str(<< >>), Str(<< " " >>), Str(<< "a" >>) }

\* the catalog whose albums all carry the description d
WithDescription(c, d) == [a \in 1..Len(c) |-> [c[a] EXCEPT !.description = d]]

\* Catalogs whose photos carry no metadata, and catalogs with any mix
PlainCatalogs == { CatalogOf(s, {}) : s \in CatalogShapes }
Catalogs ==
    { CatalogOf(s, d) : s \in CatalogShapes,
                        d \in { {}, { p \in 1..MaxPhotos : p % 2 = 1 }, 1..MaxPhotos } }
\* and the same catalogs with every description an album may carry
DescribedCatalogs(catalogs) ==
    { WithDescription(c, d) : c \in catalogs, d \in AlbumDescriptions }

OptionsSet ==
    [ albumId   : {NoAlbumId, 1, MissingAlbumId},
      dryRun    : BOOLEAN,
      batchSize : 0..MaxBatch ]

\* the process runs; no command of the command line is involved
NotExited == [exited |-> FALSE, code |-> 0]
NoCli == command = "none" /\ processExit = NotExited

\* checkTransferStatus(jobId?): no job id given, and nothing reported yet
NoJobId == 0
NoReport == [kind |-> "none", jobId |-> NoJobId, jobs |-> << >>]

\* TransferJob: status, processedPhotos, totalPhotos, error, endTime set or not
NoJob ==
    [ status |-> "none", processedPhotos |-> 0, totalPhotos |-> 0,
      error |-> "none", ended |-> FALSE ]

\* Mutant: the job starts as in_progress
NewJob_InProgress(total) ==
    [ status |-> "in_progress", processedPhotos |-> 0, totalPhotos |-> total,
      error |-> "none", ended |-> FALSE ]

\* const job = { status: 'pending', totalPhotos: album.photos.length, processedPhotos: 0, ... }
NewJob(total) ==
    [ status |-> "pending", processedPhotos |-> 0, totalPhotos |-> total,
      error |-> "none", ended |-> FALSE ]

\* One call, as the history keeps it
Entry(op, album, photo, ids, ok) ==
    [ op |-> op, album |-> album, photo |-> photo, ids |-> ids, ok |-> ok,
      job |-> NoJob, description |-> Undefined ]

\* createAlbum(title) or createAlbum(title, description): the title is the
\* album's, the second argument is kept as given (Undefined when not given)
CreateAlbumEntry(album, description, ok) ==
    [ Entry("createAlbum", album, 0, << >>, ok) EXCEPT !.description = description ]

\* saveJob(job): the record written to `${job.id}.json`
JobEntry(album, record, ok) ==
    [ op |-> "saveJob", album |-> album, photo |-> 0, ids |-> << >>, ok |-> ok,
      job |-> record, description |-> Undefined ]

---------------------------------------------------------------------------
(* Pure functions of the code *)

\* options.batchSize || 10
BatchSizeOf(opts) ==
    IF opts.batchSize # 0 THEN opts.batchSize ELSE DefaultBatchSize

\* [...new Set(photoIds)]: a Set keeps its members in insertion order and
\* ignores the insertion of a member it has, so what is left of the list are
\* the first occurrences, in place.
FirstOccurrences(s) ==
    { x \in 1..Len(s) : \A y \in 1..(x - 1) : s[y] # s[x] }

\* Mutant: the list is sent as it came, repeated ids included
Unique_KeepsRepeats(s) == s

Unique(s) ==
    LET first == FirstOccurrences(s)
        nth(n) == CHOOSE x \in first : Cardinality({ y \in first : y <= x }) = n
    IN  [n \in 1..Cardinality(first) |-> s[nth(n)]]

NoId == [kind |-> "none", id |-> 0]

---------------------------------------------------------------------------
(* Strings: flickrName, flickrDescription *)

\* the characters of the texts, those of the separator among them
Alphabet == { "a", " ", "-" }

Texts == UNION { [1..n -> Alphabet] : n \in 0..MaxText }

\* the values of type string | undefined
StringOrUndefined == { Undefined } \cup { Str(t) : t \in Texts }

\* if (value): undefined and '' are falsy, every other string is truthy
Truthy(value) == value.defined /\ value.text # << >>

\* the ' - ' of `${flickrName} - ${flickrDescription}`
Separator == << " ", "-", " " >>

\* Mutant: the description is put before the name
createGoogleDescription_DescriptionFirst(name, description) ==
    IF Truthy(name) /\ Truthy(description)
      THEN description.text \o Separator \o name.text
      ELSE IF Truthy(name) THEN name.text
      ELSE IF Truthy(description) THEN description.text
      ELSE << >>

\* createGoogleDescription(flickrName, flickrDescription): string
createGoogleDescription(name, description) ==
    IF Truthy(name) /\ Truthy(description)
      THEN name.text \o Separator \o description.text
      ELSE IF Truthy(name) THEN name.text
      ELSE IF Truthy(description) THEN description.text
      ELSE << >>

\* outside a call of createGoogleDescription
NoDescription ==
    /\ flickrName = Undefined
    /\ flickrDescription = Undefined
    /\ googleDescription = Undefined

(* The transfer command's --batch-size *)

\* Length of the texts given to --batch-size
MaxArg == 3

\* the characters the texts are made of: digits, the sign, a letter
ArgAlphabet == { "0", "1", "2", "-", "a" }

ArgTexts == UNION { [1..n -> ArgAlphabet] : n \in 0..MaxArg }

\* options.batchSize as commander hands it over: the text, or nothing given
BatchSizeArgs == { Undefined } \cup { Str(t) : t \in ArgTexts }

\* a JavaScript number: NaN or an integer
NaN == [nan |-> TRUE, value |-> 0]
Num(n) == [nan |-> FALSE, value |-> n]

DigitValue(c) ==
    CASE c = "0" -> 0 [] c = "1" -> 1 [] c = "2" -> 2 [] c = "3" -> 3
      [] c = "4" -> 4 [] c = "5" -> 5 [] c = "6" -> 6 [] c = "7" -> 7
      [] c = "8" -> 8 [] c = "9" -> 9

Digits == { "0", "1", "2", "3", "4", "5", "6", "7", "8", "9" }

\* how many characters at the start of s are digits
DigitPrefix(s) ==
    Cardinality({ n \in 1..Len(s) : \A x \in 1..n : s[x] \in Digits })

RECURSIVE Decimal(_)
Decimal(s) ==
    IF s = << >> THEN 0
    ELSE 10 * Decimal(SubSeq(s, 1, Len(s) - 1)) + DigitValue(s[Len(s)])

RECURSIVE TrimStart(_)
TrimStart(s) == IF s # << >> /\ Head(s) = " " THEN TrimStart(Tail(s)) ELSE s

\* parseInt(text), radix 10: leading blanks are skipped, a sign is taken,
\* then the longest run of digits; what follows is ignored; NaN without a
\* digit.  (The alphabet has no 'x', so the 0x prefix does not arise.)
parseInt(text) ==
    LET t      == TrimStart(text)
        signed == t # << >> /\ Head(t) \in { "-", "+" }
        body   == IF signed THEN Tail(t) ELSE t
        n      == DigitPrefix(body)
        value  == Decimal(SubSeq(body, 1, n))
    IN  IF n = 0 THEN NaN
        ELSE Num(IF Head(t) = "-" THEN 0 - value ELSE value)

\* .option('-b --batch-size <size>', ..., '10'): the default of the option
BatchSizeOption(given) == IF given = Undefined THEN << "1", "0" >> ELSE given.text

\* number || 10: NaN and 0 are falsy
OrDefault(number) ==
    IF number.nan \/ number.value = 0 THEN DefaultBatchSize ELSE number.value

NoCommandLine ==
    /\ batchSizeArg = Undefined
    /\ parsedBatchSize = NaN
    /\ batchSize = 0

---------------------------------------------------------------------------
(* Destination credentials *)

\* What the configuration file gives the run:
\*   "missing"          no .flickr-to-google.json (or one that cannot be read)
\*   "unauthenticated"  a configuration without access token, or with an
\*                      expired one that cannot be refreshed
\*   "authenticated"    an access token the destination accepts
CredentialStates == {"missing", "unauthenticated", "authenticated"}

\* ConfigManager.getCredentials: throws 'Configuration not found' when
\* loadConfig returns null, else returns config.credentials
getCredentials(stored) == stored # "missing"

\* GooglePhotosService.ensureAuthenticated, run at the start of every
\* request to the destination: throws without a usable access token
ensureAuthenticated(stored) == stored = "authenticated"

---------------------------------------------------------------------------
(* The loopback OAuth handshake: values *)

\* The three callback handler classes of the repository:
\*   "hapi"          HapiOAuthHandler (src/utils/HapiOAuthHandler.ts)
\*   "hapi_nulling"  the earlier HapiOAuthHandler (unnamed/part_009)
\*   "http"          OAuthCallbackHandler (src/utils/BrowserOpener.ts)
HandlerClasses == { "hapi", "hapi_nulling", "http" }

\* a handler as constructed: server, resolvePromise, rejectPromise and
\* timeoutId are null (FALSE: null, TRUE: assigned)
NewHandler ==
    [ server |-> FALSE, timeoutId |-> FALSE, resolvePromise |-> FALSE,
      rejectPromise |-> FALSE ]

\* a promise: not created, pending, or settled with a code or an error message
NoPromise == [state |-> "none", code |-> Undefined, message |-> << >>]
Pending == [state |-> "pending", code |-> Undefined, message |-> << >>]
Resolved(code) == [state |-> "resolved", code |-> code, message |-> << >>]
Rejected(message) == [state |-> "rejected", code |-> Undefined, message |-> message]

\* getAuthCode has not been called
NoHandshake ==
    /\ handlerClass = "none"
    /\ handler = NewHandler
    /\ promise = NoPromise
    /\ timer = "none"
    /\ chain = "none"
    /\ listener = "none"
    /\ accepted = << >>
    /\ events = << >>

\* FlickrOAuthTokens; oauthToken 0: this.oauthTokens is undefined
NoTokens == [oauthToken |-> 0, oauthTokenSecret |-> 0, userId |-> 0]

\* the OAuth server of FlickrService has handled nothing
NoFlickrOAuth ==
    /\ currentRequestToken = 0
    /\ oauthTokens = NoTokens
    /\ flights = << >>
    /\ issued = 0
    /\ oauthTrace = << >>

\* OAuth2Client.credentials; accessToken FALSE and expiry_date 0: the field
\* is absent (setCredentials was not called: credentials is {})
NoCredentials == [access_token |-> FALSE, expiry_date |-> 0]

\* no method of GooglePhotosService is running
NoGateCall == [op |-> "none", at |-> "idle", part |-> 0]

\* GooglePhotosService has done nothing
NoGate ==
    /\ auth = NoCredentials
    /\ clock = 1
    /\ gate = NoGateCall
    /\ gateCalls = 0
    /\ gateTrace = << >>

\* the token pair a configuration written by an earlier authentication holds
StoredToken == 9

\* .flickr-to-google.json: absent, unreadable (loadConfig answers null for
\* both), or a Config, of which credentials.google is kept; a field FALSE or
\* 0 is absent
NoConfigFile ==
    [ state |-> "absent", clientId |-> FALSE, clientSecret |-> FALSE,
      accessToken |-> 0, refreshToken |-> 0, tokenExpiry |-> 0 ]

ConfigFile(clientId, clientSecret, token, expiry) ==
    [ state |-> "config", clientId |-> clientId, clientSecret |-> clientSecret,
      accessToken |-> token, refreshToken |-> token, tokenExpiry |-> expiry ]

\* a file in each state the destination's credentials can be in
ConfigFileOf(stored) ==
    CASE stored = "missing" -> NoConfigFile
      [] stored = "unauthenticated" -> ConfigFile(TRUE, TRUE, 0, 0)
      [] stored = "authenticated" -> ConfigFile(TRUE, TRUE, StoredToken, StoredToken)

\* authenticate is not running
NoAuthenticateCall ==
    [ at |-> "idle", config |-> NoConfigFile,
      tokens |-> [access_token |-> 0, refresh_token |-> 0, expiry_date |-> 0] ]

\* ConfigManager.authenticate was not called
NoAuthentication ==
    /\ configFile = ConfigFileOf(credentials)
    /\ authentication = NoAuthenticateCall
    /\ authCalls = 0
    /\ authTrace = << >>

\* no account operation (OAuth handshake, Flickr OAuth) is under way
NoAccounts == NoHandshake /\ NoFlickrOAuth /\ NoGate /\ NoAuthentication

---------------------------------------------------------------------------
(* The run: FlickrToGoogleTransfer.transferAlbums *)

InitLocals ==
    /\ albums = << >>
    /\ k = 0
    /\ googleAlbum = Null
    /\ i = 0
    /\ photoIds = << >>
    /\ processedPhotos = 0
    /\ job = NoJob
    /\ batch = << >>
    /\ j = 0
    /\ batchPhotoIds = << >>
    /\ googlePhotoId = NoId
    /\ uniquePhotoIds = << >>
    /\ w = 0
    /\ error = "none"
    /\ log = << >>

InitRun(rev, catalogs) ==
    /\ revision = rev
    /\ catalog \in catalogs
    /\ options \in OptionsSet
    /\ pc = "start"
    /\ InitLocals
    /\ started = 0
    /\ NoDescription
    /\ credentials \in CredentialStates
    /\ NoCommandLine
    /\ reported = NoReport
    /\ NoCli
    /\ resumed = 0
    /\ NoAccounts

Init == InitRun("paced", PlainCatalogs)
InitTracked == InitRun("tracked", PlainCatalogs)
InitLegacy == InitRun("legacy", Catalogs)

\* what no step of transferAlbums changes
Given == << revision, catalog, options, started, flickrName, flickrDescription,
           googleDescription >>
CommandLine == << batchSizeArg, parsedBatchSize, batchSize >>
Cli == << command, processExit >>
Handshake == << handlerClass, handler, promise, timer, chain, listener,
               accepted, events >>
FlickrOAuth == << currentRequestToken, oauthTokens, flights, issued, oauthTrace >>
Gate == << auth, clock, gate, gateCalls, gateTrace >>
Authentication == << configFile, authentication, authCalls, authTrace >>
Accounts == << Handshake, FlickrOAuth, Gate, Authentication >>
Side == << credentials, CommandLine, reported, Cli, resumed, Accounts >>
Env == << Given, Side >>
BatchLocals == << batch, j, batchPhotoIds, googlePhotoId >>
WindowLocals == << uniquePhotoIds, w >>
AlbumLocals == << googleAlbum, i, photoIds, processedPhotos, job >>
RunLocals == << error, albums, k, AlbumLocals, BatchLocals, WindowLocals, log >>

\* the revisions that keep a job record
Tracked == revision \in {"tracked", "legacy"}
Legacy == revision = "legacy"

CurrentAlbum == albums[k]
N == Len(CurrentAlbum.photos)
InTransferAlbum == k >= 1

Record(e) == log' = Append(log, e)

\* Mutant: the exception is swallowed and the code carries on where it was
Catch_NoRethrow(what) ==
    /\ error' = what
    /\ job' = job
    /\ pc' = "albums"

\* Mutant: the catch forgets job.status = 'failed'
Catch_KeepsStatus(what) ==
    /\ error' = what
    /\ IF ~InTransferAlbum
         THEN pc' = "thrown" /\ job' = job
         ELSE IF Tracked
                THEN /\ job' = [job EXCEPT !.error = what, !.ended = TRUE]
                     /\ pc' = "saveFailed"
                ELSE pc' = "rejected" /\ job' = job

Catch_Swallows(what) ==
    /\ error' = error
    /\ job' = job
    /\ pc' = pc

\* An exception thrown inside transferAlbum's try block.  The catch marks
\* the job failed and saves it (tracked, legacy), then rethrows; the catch of
\* transferAlbums rethrows again, so the run is rejected.  Thrown by
\* addPhotosToAlbum called on its own, the exception just leaves it.
Catch(what) ==
    /\ error' = what
    /\ IF ~InTransferAlbum
         THEN pc' = "thrown" /\ job' = job
         ELSE IF Tracked
                THEN /\ job' = [job EXCEPT !.status = "failed", !.error = what,
                                           !.ended = TRUE]
                     /\ pc' = "saveFailed"
                ELSE pc' = "rejected" /\ job' = job

\* initialize(): getCredentials() throws when no configuration is stored;
\* the GooglePhotosService is built from whatever credentials come back.
Initialize ==
    /\ pc = "start"
    /\ IF getCredentials(credentials)
         THEN pc' = "resolve" /\ error' = error
         ELSE pc' = "rejected" /\ error' = "credentials"
    /\ UNCHANGED << Env, albums, k, AlbumLocals, BatchLocals, WindowLocals, log >>

\* Mutant: an unknown id finds whatever the export holds
FindAlbum_AnyAlbum(albumId) ==
    IF SelectSeq(catalog, LAMBDA a : a.id = albumId) # << >>
      THEN SelectSeq(catalog, LAMBDA a : a.id = albumId)
      ELSE catalog

\* getAlbumDetails(albumId): albumsData.albums.find(album => album.id === albumId)
FindAlbum(albumId) ==
    SelectSeq(catalog, LAMBDA a : a.id = albumId)

\* transferAlbums: if (options.albumId) getAlbumDetails else getAlbums
ResolveAlbums ==
    /\ pc = "resolve"
    /\ IF options.albumId # NoAlbumId
         THEN IF FindAlbum(options.albumId) # << >>
                THEN /\ albums' = << Head(FindAlbum(options.albumId)) >>
                     /\ pc' = "albums"
                     /\ error' = error
                ELSE /\ albums' = albums
                     /\ pc' = "rejected"
                     /\ error' = "album not found"
         ELSE /\ albums' = catalog
              /\ pc' = "albums"
              /\ error' = error
    /\ UNCHANGED << Env, k, AlbumLocals, BatchLocals, WindowLocals, log >>

\* Mutant: the job counts what the album declares
TotalPhotos_Declared(album) == album.photoCount

\* totalPhotos: album.photos.length
TotalPhotos(album) == Len(album.photos)

\* transferAlbums: for (const album of albums) await this.transferAlbum(...)
\* transferAlbum (tracked, legacy) starts by building the job record.
EnterAlbum ==
    /\ pc = "albums"
    /\ k < Len(albums)
    /\ k' = k + 1
    /\ googleAlbum' = Null
    /\ i' = 0
    /\ photoIds' = << >>
    /\ processedPhotos' = 0
    /\ job' = IF Tracked THEN NewJob(TotalPhotos(albums[k + 1])) ELSE NoJob
    /\ pc' = IF Tracked THEN "savePending" ELSE "createAlbum"
    /\ UNCHANGED << Env, error, albums, BatchLocals, WindowLocals, log >>

\* transferAlbums: the loop is over, 'Transfer completed successfully!'
Finish ==
    /\ pc = "albums"
    /\ k = Len(albums)
    /\ pc' = "done"
    /\ UNCHANGED << Env, error, albums, k, AlbumLocals, BatchLocals, WindowLocals, log >>

---------------------------------------------------------------------------
(* FlickrToGoogleTransfer.transferAlbum *)

\* await this.saveJob(job), before the try block: a failed write leaves
\* transferAlbum at once
SaveJobPending ==
    /\ pc = "savePending"
    /\ \E ok \in BOOLEAN :
         /\ Record(JobEntry(CurrentAlbum.id, job, ok))
         /\ IF ok THEN pc' = "createAlbum" /\ error' = error
                  ELSE pc' = "rejected" /\ error' = "saveJob"
    /\ UNCHANGED << Env, albums, k, AlbumLocals, BatchLocals, WindowLocals >>

\* whether transferAlbum creates the destination album:
\* if (!options.dryRun) in the paced and tracked revisions
ShouldCreateAlbum(rev, opts) == rev = "legacy" \/ ~opts.dryRun

\* the second argument of createAlbum: the legacy revision calls
\* createAlbum(album.title, album.description), the others createAlbum(album.title)
CreateAlbumDescription(rev, album) ==
    IF rev = "legacy" THEN album.description ELSE Undefined

\* googleAlbum = await this.googlePhotosService.createAlbum(album.title)
CreateAlbum ==
    /\ pc = "createAlbum"
    /\ ShouldCreateAlbum(revision, options)
    /\ \E ok \in BOOLEAN :
         /\ ok => ensureAuthenticated(credentials)
         /\ Record(CreateAlbumEntry(CurrentAlbum.id,
                                     CreateAlbumDescription(revision, CurrentAlbum), ok))
         /\ IF ok THEN /\ googleAlbum' = CurrentAlbum.id
                       /\ pc' = "loop"
                       /\ error' = error
                       /\ job' = job
                  ELSE /\ googleAlbum' = googleAlbum
                       /\ Catch("createAlbum")
    /\ UNCHANGED << Env, albums, k, i, photoIds, processedPhotos, BatchLocals, WindowLocals >>

\* else Logger.info('[DRY RUN] Would create Google Photos album')
DryRunCreateAlbum ==
    /\ pc = "createAlbum"
    /\ ~ShouldCreateAlbum(revision, options)
    /\ pc' = "loop"
    /\ UNCHANGED << Env, error, albums, k, AlbumLocals, BatchLocals, WindowLocals, log >>

\* Mutant: the pause is taken before the first chunk too
ShouldPause_Always(from) == from >= 0

\* if (i > 0), in the paced revision
ShouldPause(from) == from > 0

\* if (i > 0) await new Promise(r => setTimeout(r, sleepTimeBetweenBatches))
Pause ==
    /\ pc = "loop"
    /\ ~Tracked
    /\ i < N
    /\ ShouldPause(i)
    /\ Record(Entry("pause", CurrentAlbum.id, 0, << >>, TRUE))
    /\ pc' = "batch"
    /\ UNCHANGED << Env, error, albums, k, AlbumLocals, BatchLocals, WindowLocals >>

\* Mutant: the chunk is taken back to front
ChunkOf_Reversed(photos, from, size) ==
    [x \in 1..Len(Slice(photos, from, from + size)) |->
        Slice(photos, from, from + size)[Len(Slice(photos, from, from + size)) + 1 - x]]

\* Mutant: the chunk runs one photo into the next one
ChunkOf_Overlapping(photos, from, size) == Slice(photos, from, from + size + 1)

\* const batch = album.photos.slice(i, i + batchSize)
ChunkOf(photos, from, size) == Slice(photos, from, from + size)

\* for (let i = 0; i < album.photos.length; ...): processPhotoBatch(batch, dryRun)
\* The entry's photo is the chunk's length.
ProcessPhotoBatch ==
    /\ IF pc = "loop" THEN i < N /\ (Tracked \/ ~ShouldPause(i)) ELSE pc = "batch"
    /\ batch' = ChunkOf(CurrentAlbum.photos, i, BatchSizeOf(options))
    /\ j' = 1
    /\ batchPhotoIds' = << >>
    /\ Record(Entry("processPhotoBatch", CurrentAlbum.id, Len(batch'), << >>, TRUE))
    /\ pc' = "photo"
    /\ UNCHANGED << Env, error, albums, k, AlbumLocals, googlePhotoId, WindowLocals >>

\* Mutant: what is left is counted instead of what is done
ProcessedAfter_Remaining(from, size, total) == total - from

\* Mutant: the start of the chunk is recorded, not its end
ProcessedAfter_Stale(from, size, total) == from

\* Mutant: Math.min is missing
ProcessedAfter_Unclamped(from, size, total) == from + size

\* Math.min(i + batchSize, album.photos.length)
ProcessedAfter(from, size, total) == Min(from + size, total)

\* Mutant: the loop moves on by one photo, whatever the batch size
NextOffset_ByOne(from, size) == from + 1

\* for (let i = 0; i < album.photos.length; i += batchSize)
NextOffset(from, size) == from + size

\* Mutant: the newest chunk's ids are put in front
Collected_Prepends(ids, batchIds) == batchIds \o ids

\* photoIds.push(...batchPhotoIds)
Collected(ids, batchIds) == ids \o batchIds

\* processPhotoBatch returns: photoIds.push(...batchPhotoIds), then the
\* progress (paced: reported and i += batchSize; tracked, legacy: put into
\* the job, which is saved next)
BatchReturn ==
    /\ pc = "photo"
    /\ j > Len(batch)
    /\ photoIds' = Collected(photoIds, batchPhotoIds)
    /\ IF Tracked
         THEN /\ job' = [job EXCEPT
                           !.processedPhotos = ProcessedAfter(i, BatchSizeOf(options), N),
                           !.status = "in_progress"]
              /\ pc' = "saveProgress"
              /\ UNCHANGED << i, processedPhotos >>
         ELSE /\ processedPhotos' = ProcessedAfter(i, BatchSizeOf(options), N)
              /\ i' = NextOffset(i, BatchSizeOf(options))
              /\ pc' = "loop"
              /\ job' = job
    /\ UNCHANGED << Env, error, albums, k, googleAlbum, BatchLocals, WindowLocals, log >>

\* await this.saveJob(job) after a chunk, then i += batchSize
SaveJobProgress ==
    /\ pc = "saveProgress"
    /\ \E ok \in BOOLEAN :
         /\ Record(JobEntry(CurrentAlbum.id, job, ok))
         /\ IF ok THEN /\ i' = NextOffset(i, BatchSizeOf(options))
                       /\ pc' = "loop"
                       /\ error' = error
                       /\ job' = job
                  ELSE /\ i' = i
                       /\ Catch("saveJob")
    /\ UNCHANGED << Env, albums, k, googleAlbum, photoIds, processedPhotos, BatchLocals, WindowLocals >>

---------------------------------------------------------------------------
(* FlickrToGoogleTransfer.processPhotoBatch, one photo at a time *)

\* if (dryRun) { photoIds.push(`dry_run_${photo.id}`); continue; }
DryRunPhoto ==
    /\ pc = "photo"
    /\ j <= Len(batch)
    /\ options.dryRun
    /\ batchPhotoIds' = Append(batchPhotoIds, DryRunId(batch[j].id))
    /\ j' = j + 1
    /\ UNCHANGED << Env, pc, error, albums, k, AlbumLocals, batch, googlePhotoId, WindowLocals, log >>

\* const photoBuffer = await this.flickrService.getPhoto(photo)
\* (downloadPhoto in the legacy revision); a failure is caught by the
\* photo's own try/catch and the photo is skipped
GetPhoto ==
    /\ pc = "photo"
    /\ j <= Len(batch)
    /\ ~options.dryRun
    /\ \E ok \in BOOLEAN :
         /\ Record(Entry("getPhoto", CurrentAlbum.id, batch[j].id, << >>, ok))
         /\ IF ok THEN pc' = "upload" /\ j' = j
                  ELSE pc' = "photo" /\ j' = j + 1
    /\ UNCHANGED << Env, error, albums, k, AlbumLocals, batch, batchPhotoIds, googlePhotoId, WindowLocals >>

\* Mutant: the failed photo leaves an undefined id in the result
AfterFailedPhoto_PushesUndefined(ids) == Append(ids, NoId)

\* catch (error) { Logger.warning(...) }: what a failed photo leaves of the
\* chunk's result
AfterFailedPhoto(ids) == ids

\* const googlePhotoId = await uploadPhoto(...); photoIds.push(googlePhotoId)
\* legacy: a photo with metadata gets updatePhotoMetadata before the push
UploadPhoto ==
    /\ pc = "upload"
    /\ \/ \E r \in DestIds :
            /\ ensureAuthenticated(credentials)
            /\ Record(Entry("uploadPhoto", CurrentAlbum.id, batch[j].id, << MediaId(r) >>, TRUE))
            /\ IF Legacy /\ batch[j].described
                 THEN /\ googlePhotoId' = MediaId(r)
                      /\ pc' = "metadata"
                      /\ UNCHANGED << j, batchPhotoIds >>
                 ELSE /\ batchPhotoIds' = Append(batchPhotoIds, MediaId(r))
                      /\ j' = j + 1
                      /\ pc' = "photo"
                      /\ googlePhotoId' = googlePhotoId
       \/ /\ Record(Entry("uploadPhoto", CurrentAlbum.id, batch[j].id, << >>, FALSE))
          /\ batchPhotoIds' = AfterFailedPhoto(batchPhotoIds)
          /\ j' = j + 1
          /\ pc' = "photo"
          /\ googlePhotoId' = googlePhotoId
    /\ UNCHANGED << Env, error, albums, k, AlbumLocals, batch, WindowLocals >>

\* legacy: await updatePhotoMetadata(googlePhotoId, ...); photoIds.push(googlePhotoId)
UpdatePhotoMetadata ==
    /\ pc = "metadata"
    /\ \E ok \in BOOLEAN :
         /\ Record(Entry("updatePhotoMetadata", CurrentAlbum.id, batch[j].id, << googlePhotoId >>, ok))
         /\ batchPhotoIds' = IF ok THEN Append(batchPhotoIds, googlePhotoId)
                                   ELSE AfterFailedPhoto(batchPhotoIds)
    /\ j' = j + 1
    /\ pc' = "photo"
    /\ UNCHANGED << Env, error, albums, k, AlbumLocals, batch, googlePhotoId, WindowLocals >>

---------------------------------------------------------------------------
(* transferAlbum: the membership step *)

AfterChunks == pc = "loop" /\ i >= N

\* Mutant: the completed job is not written
AlbumSucceeded_NoTerminalWrite ==
    /\ job' = IF Tracked THEN [job EXCEPT !.status = "completed", !.ended = TRUE]
                         ELSE job
    /\ pc' = "albums"

\* Mutant: a live album none of whose photos was transferred counts as failed
AlbumSucceeded_RequiresPhotos ==
    IF Tracked
      THEN IF photoIds = << >> /\ ~options.dryRun /\ N > 0
             THEN /\ job' = [job EXCEPT !.status = "failed", !.ended = TRUE]
                  /\ pc' = "saveFailed"
             ELSE /\ job' = [job EXCEPT !.status = "completed", !.ended = TRUE]
                  /\ pc' = "saveCompleted"
      ELSE /\ job' = job
           /\ pc' = "albums"

\* transferAlbum reaches its end: 'transferred successfully' (paced), or
\* job.status = 'completed', job.endTime set, and the job saved next
AlbumSucceeded ==
    IF Tracked
      THEN /\ job' = [job EXCEPT !.status = "completed", !.ended = TRUE]
           /\ pc' = "saveCompleted"
      ELSE /\ job' = job
           /\ pc' = "albums"

\* if (options.dryRun) Logger.info('[DRY RUN] Would add ... photos to album')
DryRunMembership ==
    /\ AfterChunks
    /\ options.dryRun
    /\ AlbumSucceeded
    /\ UNCHANGED << Env, error, albums, k, googleAlbum, i, photoIds, processedPhotos, BatchLocals, WindowLocals, log >>

\* Mutant: the photoIds.length === 0 branch is missing
HasPhotosToAdd_IgnoresEmpty(album, ids) == album # Null

\* when transferAlbum calls addPhotosToAlbum (dry-run aside):
\* neither googleAlbum === null nor photoIds.length === 0
HasPhotosToAdd(album, ids) == album # Null /\ Len(ids) # 0

\* else if (googleAlbum === null) ... else if (photoIds.length === 0) ...
SkipMembership ==
    /\ AfterChunks
    /\ ~options.dryRun
    /\ ~HasPhotosToAdd(googleAlbum, photoIds)
    /\ AlbumSucceeded
    /\ UNCHANGED << Env, error, albums, k, googleAlbum, i, photoIds, processedPhotos, BatchLocals, WindowLocals, log >>

\* Mutant: transferAlbum deduplicates before the call
MembershipArgument_Deduplicated(ids) == Unique(ids)

\* the argument transferAlbum hands to addPhotosToAlbum: photoIds as collected
MembershipArgument(ids) == ids

\* else await this.googlePhotosService.addPhotosToAlbum(googleAlbum.id, photoIds)
CallAddPhotosToAlbum ==
    /\ AfterChunks
    /\ ~options.dryRun
    /\ HasPhotosToAdd(googleAlbum, photoIds)
    /\ photoIds' = MembershipArgument(photoIds)
    /\ Record(Entry("addPhotosToAlbum", googleAlbum, 0, photoIds', TRUE))
    /\ pc' = "addPhotosToAlbum"
    /\ UNCHANGED << Env, error, albums, k, googleAlbum, i, processedPhotos, job, BatchLocals, WindowLocals >>

\* await this.saveJob(job) with status completed; a failed write is caught
\* by transferAlbum's catch like any other exception
SaveJobCompleted ==
    /\ pc = "saveCompleted"
    /\ \E ok \in BOOLEAN :
         /\ Record(JobEntry(CurrentAlbum.id, job, ok))
         /\ IF ok THEN pc' = "albums" /\ error' = error /\ job' = job
                  ELSE Catch("saveJob")
    /\ UNCHANGED << Env, albums, k, googleAlbum, i, photoIds, processedPhotos, BatchLocals, WindowLocals >>

\* in the catch: await this.saveJob(job); throw error.  A failed write
\* replaces the error being rethrown.
SaveJobFailed ==
    /\ pc = "saveFailed"
    /\ \E ok \in BOOLEAN :
         /\ Record(JobEntry(CurrentAlbum.id, job, ok))
         /\ error' = IF ok THEN error ELSE "saveJob"
    /\ pc' = "rejected"
    /\ UNCHANGED << Env, albums, k, AlbumLocals, BatchLocals, WindowLocals >>

---------------------------------------------------------------------------
(* GooglePhotosService.addPhotosToAlbum / addBatchOfPhotosToAlbum *)

\* const uniquePhotoIds = [...new Set(photoIds)]; for (let i = 0; ...
AddPhotosToAlbum ==
    /\ pc = "addPhotosToAlbum"
    /\ uniquePhotoIds' = Unique(photoIds)
    /\ w' = 0
    /\ pc' = "window"
    /\ UNCHANGED << Env, error, albums, k, AlbumLocals, BatchLocals, log >>

\* Mutant: the window is one id too long
Window_OneTooLong(ids, from) == Slice(ids, from, from + MembershipBatchSize + 1)

\* const batch = uniquePhotoIds.slice(i, i + batchSize)
Window(ids, from) == Slice(ids, from, from + MembershipBatchSize)

\* await this.addBatchOfPhotosToAlbum(albumId, batch): one batchAddMediaItems
\* request; its failure is rethrown and ends addPhotosToAlbum
AddBatchOfPhotosToAlbum ==
    /\ pc = "window"
    /\ w < Len(uniquePhotoIds)
    /\ \E ok \in BOOLEAN :
         /\ ok => ensureAuthenticated(credentials)
         /\ Record(Entry("batchAddMediaItems", googleAlbum, 0, Window(uniquePhotoIds, w), ok))
         /\ IF ok THEN /\ w' = w + MembershipBatchSize
                       /\ pc' = "window"
                       /\ error' = error
                       /\ job' = job
                  ELSE /\ w' = w
                       /\ Catch("addPhotosToAlbum")
    /\ UNCHANGED << Env, albums, k, googleAlbum, i, photoIds, processedPhotos, BatchLocals, uniquePhotoIds >>

\* the window loop is over: addPhotosToAlbum returns; in transferAlbum,
\* 'Added ... photos to album'
AddPhotosReturn ==
    /\ pc = "window"
    /\ w >= Len(uniquePhotoIds)
    /\ IF InTransferAlbum THEN AlbumSucceeded
                          ELSE pc' = "returned" /\ job' = job
    /\ UNCHANGED << Env, error, albums, k, googleAlbum, i, photoIds, processedPhotos, BatchLocals, WindowLocals, log >>

---------------------------------------------------------------------------
(* addPhotosToAlbum on long id lists *)

SmallIdLists ==
    UNION { [1..n -> { MediaId(x) : x \in 1..3 }] : n \in 0..5 }

\* n ids of which the first `period` are distinct and the rest repeat them
PeriodicIds(n, period) == [x \in 1..n |-> MediaId(((x - 1) % period) + 1)]

LongIdLists ==
    { PeriodicIds(n, period) :
        n \in (MembershipBatchSize - 5)..MaxIds,
        period \in {7, MembershipBatchSize + 10, MaxIds + 1} }

IdLists == SmallIdLists \cup LongIdLists

\* addPhotosToAlbum(1, ids) called on its own
InitDirect(ids) ==
    /\ catalog = << >>
    /\ albums = << >>
    /\ k = 0
    /\ i = 0
    /\ processedPhotos = 0
    /\ pc = "addPhotosToAlbum"

\* transferAlbum after the chunks of a live album whose photos produced ids
InitAfterChunks(ids) ==
    /\ catalog = CatalogOf(<< Len(ids) >>, {})
    /\ albums = catalog
    /\ k = 1
    /\ i = ((Len(ids) + DefaultBatchSize - 1) \div DefaultBatchSize) * DefaultBatchSize
    /\ processedPhotos = Len(ids)
    /\ pc = "loop"

\* log holds the calls made from this point on
InitMembership ==
    /\ revision = "paced"
    /\ options = [albumId |-> NoAlbumId, dryRun |-> FALSE, batchSize |-> 0]
    /\ photoIds \in IdLists
    /\ googleAlbum = 1
    /\ InitDirect(photoIds) \/ InitAfterChunks(photoIds)
    /\ job = NoJob
    /\ batch = << >>
    /\ j = 0
    /\ batchPhotoIds = << >>
    /\ googlePhotoId = NoId
    /\ uniquePhotoIds = << >>
    /\ w = 0
    /\ error = "none"
    /\ log = << >>
    /\ started = 0
    /\ NoDescription
    /\ credentials = "authenticated"
    /\ NoCommandLine
    /\ reported = NoReport
    /\ NoCli
    /\ resumed = 0
    /\ NoAccounts

---------------------------------------------------------------------------
(* Calls in flight: every call of transferAlbums is awaited *)

\* the calls made on the collaborators: album create, photo fetch, photo
\* upload, membership request, job write
CallOps ==
    { "createAlbum", "getPhoto", "uploadPhoto", "batchAddMediaItems", "saveJob" }

\* the calls that have returned or thrown: each left its entry in the history
Settled == Cardinality({ x \in 1..Len(log) : log[x].op \in CallOps })

InFlight == started - Settled

\* the run stands at a statement that calls a collaborator
AtCallSite ==
    \/ pc = "createAlbum" /\ ShouldCreateAlbum(revision, options)
    \/ pc = "photo" /\ j <= Len(batch) /\ ~options.dryRun
    \/ pc = "upload"
    \/ pc = "window" /\ w < Len(uniquePhotoIds)
    \/ pc \in {"savePending", "saveProgress", "saveCompleted", "saveFailed"}

\* Mutant: the call is issued without await, the run goes on issuing calls
Awaited_FireAndForget(pending) == pending >= 0

\* await: the statement is suspended on the call it has issued, and issues
\* no other until that one has settled
Awaited(pending) == pending = 0

\* the call expression is evaluated: the request leaves
StartCall ==
    /\ AtCallSite
    /\ Awaited(InFlight)
    /\ started' = started + 1
    /\ UNCHANGED << revision, catalog, options, flickrName, flickrDescription,
                    googleDescription, Side, pc, error, albums, k, AlbumLocals,
                    BatchLocals, WindowLocals, log >>

\* await resumes: the call in flight returns or throws
SettleCall ==
    /\ InFlight > 0
    /\ \/ CreateAlbum
       \/ GetPhoto
       \/ UploadPhoto
       \/ AddBatchOfPhotosToAlbum
       \/ SaveJobPending
       \/ SaveJobProgress
       \/ SaveJobCompleted
       \/ SaveJobFailed

\* the steps between the calls
BetweenCalls ==
    \/ Initialize
    \/ ResolveAlbums
    \/ EnterAlbum
    \/ Finish
    \/ DryRunCreateAlbum
    \/ Pause
    \/ ProcessPhotoBatch
    \/ BatchReturn
    \/ DryRunPhoto
    \/ DryRunMembership
    \/ SkipMembership
    \/ CallAddPhotosToAlbum
    \/ AddPhotosToAlbum
    \/ AddPhotosReturn

\* transferAlbums of the paced and of the tracked revision, calls issued and
\* settled in separate steps
InitCalls == InitRun("paced", PlainCatalogs) \/ InitRun("tracked", PlainCatalogs)

NextCalls == StartCall \/ SettleCall \/ BetweenCalls

SpecCalls == InitCalls /\ [][NextCalls]_vars

---------------------------------------------------------------------------
(* createGoogleDescription called on its own *)

InitDescription ==
    /\ revision = "paced"
    /\ catalog = << >>
    /\ options = [albumId |-> NoAlbumId, dryRun |-> FALSE, batchSize |-> 0]
    /\ pc = "createGoogleDescription"
    /\ InitLocals
    /\ started = 0
    /\ flickrName \in StringOrUndefined
    /\ flickrDescription \in StringOrUndefined
    /\ googleDescription = Undefined
    /\ credentials = "authenticated"
    /\ NoCommandLine
    /\ reported = NoReport
    /\ NoCli
    /\ resumed = 0
    /\ NoAccounts

\* return googleDescription
CallCreateGoogleDescription ==
    /\ pc = "createGoogleDescription"
    /\ googleDescription' = Str(createGoogleDescription(flickrName, flickrDescription))
    /\ pc' = "described"
    /\ UNCHANGED << revision, catalog, options, started, flickrName, flickrDescription,
                    Side, error, albums, k, AlbumLocals, BatchLocals, WindowLocals, log >>

NextDescription == CallCreateGoogleDescription

SpecDescription == InitDescription /\ [][NextDescription]_vars

---------------------------------------------------------------------------
(* The bulk-export reader: FlickrService.getAlbumDetails *)

\* The photo lists an album of metadata/albums.json may hold: photo ids in
\* ascending order, with the id '0' (written 0) that Flickr adds at times
\* put anywhere among them.
ExportPhotoLists ==
    { s \in UNION { [1..n -> 0..MaxPhotos] : n \in 0..(MaxPhotos + 1) } :
        \A x, y \in 1..Len(s) :
            x < y => /\ ~(s[x] = 0 /\ s[y] = 0)
                     /\ (s[x] # 0 /\ s[y] # 0) => s[x] < s[y] }

\* An album of albums.json; photo_count counts what the album lists.
AlbumData(photos) ==
    [ id |-> 1, description |-> Str(<< >>), photos |-> photos,
      photo_count |-> Len(photos) ]

\* getAlbumDetails, once albumData is found: the id '0' is filtered out, a
\* photo whose getPhotoInfo throws (no photo_<id>.json: not in loadable) is
\* skipped with a warning, photoCount is the parsed photo_count.
getAlbumDetails(albumData, loadable) ==
    LET listed == SelectSeq(albumData.photos, LAMBDA p : p # 0)
        loaded == SelectSeq(listed, LAMBDA p : p \in loadable)
    IN  [ id          |-> albumData.id,
          description |-> albumData.description,
          photoCount  |-> albumData.photo_count,
          photos      |-> [x \in 1..Len(loaded) |-> Photo(loaded[x], FALSE)] ]

\* What the reader makes of the one-album exports
ExportCatalogs ==
    { << getAlbumDetails(AlbumData(s), l) >> :
        s \in ExportPhotoLists, l \in SUBSET (1..MaxPhotos) }

InitExport == InitRun("tracked", ExportCatalogs)

---------------------------------------------------------------------------
(* The transfer command builds TransferOptions; transferAlbum takes its     *)
(* batch size from them                                                     *)

InitCommandLine ==
    /\ revision = "tracked"
    /\ catalog = << >>
    /\ options = [albumId |-> NoAlbumId, dryRun |-> FALSE, batchSize |-> 0]
    /\ pc = "command"
    /\ InitLocals
    /\ started = 0
    /\ NoDescription
    /\ credentials = "authenticated"
    /\ batchSizeArg \in BatchSizeArgs
    /\ parsedBatchSize = NaN
    /\ batchSize = 0
    /\ reported = NoReport
    /\ NoCli
    /\ resumed = 0
    /\ NoAccounts

\* batchSize: parseInt(options.batchSize)
ParseOptions ==
    /\ pc = "command"
    /\ parsedBatchSize' = parseInt(BatchSizeOption(batchSizeArg))
    /\ pc' = "parsed"
    /\ UNCHANGED << Given, credentials, batchSizeArg, batchSize, reported, Cli, resumed, Accounts, RunLocals >>

\* const batchSize = options.batchSize || 10
ChooseBatchSize ==
    /\ pc = "parsed"
    /\ batchSize' = OrDefault(parsedBatchSize)
    /\ pc' = "chunking"
    /\ UNCHANGED << Given, credentials, batchSizeArg, parsedBatchSize, reported, Cli, resumed, Accounts, RunLocals >>

NextCommandLine == ParseOptions \/ ChooseBatchSize

SpecCommandLine == InitCommandLine /\ [][NextCommandLine]_vars

---------------------------------------------------------------------------
(* The commands list-albums and transfer of the command line *)

\* Mutant: after initialize the listing goes on as a transfer does
AfterListInitialize_Transfers(found) == IF found THEN "resolve" ELSE "rejected"

\* listFlickrAlbums after await this.initialize(dataDirectory): on to
\* getAlbums, or out with what initialize threw
AfterListInitialize(found) == IF found THEN "getAlbums" ELSE "rejected"

\* listFlickrAlbums: await this.initialize(dataDirectory)
ListInitialize ==
    /\ pc = "list"
    /\ pc' = AfterListInitialize(getCredentials(credentials))
    /\ error' = IF getCredentials(credentials) THEN error ELSE "credentials"
    /\ UNCHANGED << Env, albums, k, AlbumLocals, BatchLocals, WindowLocals, log >>

\* album.description.substring(0, 100) throws on an album without description
Printable(album) == album.description # Undefined

\* listFlickrAlbums: const albums = await this.flickrService.getAlbums(), then
\* the albums are printed; whatever is thrown is rethrown by the catch
ListAlbums ==
    /\ pc = "getAlbums"
    /\ \E ok \in BOOLEAN :
         IF ~ok
           THEN /\ pc' = "rejected"
                /\ error' = "getAlbums"
                /\ albums' = albums
           ELSE /\ albums' = catalog
                /\ IF \A a \in 1..Len(catalog) : Printable(catalog[a])
                     THEN pc' = "listed" /\ error' = error
                     ELSE pc' = "rejected" /\ error' = "print"
    /\ UNCHANGED << Env, k, AlbumLocals, BatchLocals, WindowLocals, log >>

\* Mutant: the catch of the command does not set the exit code
ExitCode_AlwaysZero(rejected) == 0

\* the command's action: try { await ... } catch { process.exit(1) }; a
\* process that just ends has exit code 0
ExitCode(rejected) == IF rejected THEN 1 ELSE 0

\* the action of the command returns or catches, and the process ends
CommandEnds ==
    /\ command # "none"
    /\ ~processExit.exited
    /\ pc \in {"done", "listed", "rejected"}
    /\ processExit' = [exited |-> TRUE, code |-> ExitCode(pc = "rejected")]
    /\ UNCHANGED << Given, credentials, CommandLine, reported, command, resumed, Accounts, pc, RunLocals >>

\* flickr-to-google transfer ... or flickr-to-google list-albums
InitCli ==
    /\ revision = "paced"
    /\ catalog \in DescribedCatalogs(PlainCatalogs)
    /\ command \in {"transfer", "list-albums"}
    /\ IF command = "transfer"
         THEN options \in OptionsSet /\ pc = "start"
         ELSE options = [albumId |-> NoAlbumId, dryRun |-> FALSE, batchSize |-> 0]
              /\ pc = "list"
    /\ InitLocals
    /\ started = 0
    /\ NoDescription
    /\ credentials \in CredentialStates
    /\ NoCommandLine
    /\ reported = NoReport
    /\ processExit = NotExited
    /\ resumed = 0
    /\ NoAccounts

---------------------------------------------------------------------------
(* Re-invoking transfer after a failed run *)

\* the album whose transfer failed, and the job record the run left of it
FailedAlbum == CurrentAlbum.id
LeftRecord(entries) ==
    LET saved == SelectSeq(entries, LAMBDA e : e.op = "saveJob" /\ e.ok)
    IN  saved[Len(saved)]

\* The run was rejected inside transferAlbum and left a job record of the
\* album; the same transfer command is given again.  transferAlbums starts as
\* any run does: nothing of the job directory is read, initialize only makes
\* sure that the directory exists.  resumed keeps where in the history the
\* second run begins.
Reinvoke ==
    /\ pc = "rejected"
    /\ resumed = 0
    /\ InTransferAlbum
    /\ \E x \in 1..Len(log) :
          log[x].op = "saveJob" /\ log[x].ok /\ log[x].album = FailedAlbum
    /\ resumed' = Len(log)
    /\ pc' = "start"
    /\ error' = "none"
    /\ albums' = << >>
    /\ k' = 0
    /\ googleAlbum' = Null
    /\ i' = 0
    /\ photoIds' = << >>
    /\ processedPhotos' = 0
    /\ job' = NoJob
    /\ batch' = << >>
    /\ j' = 0
    /\ batchPhotoIds' = << >>
    /\ googlePhotoId' = NoId
    /\ uniquePhotoIds' = << >>
    /\ w' = 0
    /\ UNCHANGED << Given, credentials, CommandLine, reported, Cli, Accounts, log >>

---------------------------------------------------------------------------
(* Specifications *)

Membership ==
    \/ SkipMembership
    \/ CallAddPhotosToAlbum
    \/ AddPhotosToAlbum
    \/ AddBatchOfPhotosToAlbum
    \/ AddPhotosReturn

Photos ==
    \/ ProcessPhotoBatch
    \/ BatchReturn
    \/ DryRunPhoto
    \/ GetPhoto
    \/ UploadPhoto

Albums ==
    \/ Initialize
    \/ ResolveAlbums
    \/ EnterAlbum
    \/ Finish
    \/ CreateAlbum
    \/ DryRunMembership

SaveJob ==
    \/ SaveJobPending
    \/ SaveJobProgress
    \/ SaveJobCompleted
    \/ SaveJobFailed

Next == Albums \/ DryRunCreateAlbum \/ Pause \/ Photos \/ Membership

NextTracked == Albums \/ DryRunCreateAlbum \/ SaveJob \/ Photos \/ Membership

NextLegacy == Albums \/ SaveJob \/ Photos \/ UpdatePhotoMetadata \/ Membership

NextMembership == Membership \/ Finish

Spec == Init /\ [][Next]_vars

SpecTracked == InitTracked /\ [][NextTracked]_vars

SpecLegacy == InitLegacy /\ [][NextLegacy]_vars

SpecMembership == InitMembership /\ [][NextMembership]_vars

SpecExport == InitExport /\ [][NextTracked]_vars

\* the paced run, every step of which is taken at last: each call returns or
\* throws, each pause ends
SpecTermination == Init /\ [][Next]_vars /\ WF_vars(Next)

NextCli == Next \/ ListInitialize \/ ListAlbums \/ CommandEnds
SpecCli == InitCli /\ [][NextCli]_vars

NextResume == NextTracked \/ Reinvoke

\* flickr-to-google transfer --album <albumId>, given a second time after
\* it failed
InitResume == InitTracked /\ options.albumId # NoAlbumId
SpecResume == InitResume /\ [][NextResume]_vars

\* the legacy revision on albums that carry a description
InitAlbumDescription == InitRun("legacy", DescribedCatalogs(Catalogs))
SpecAlbumDescription == InitAlbumDescription /\ [][NextLegacy]_vars

---------------------------------------------------------------------------
(* Reading the history *)

Indices(op) == { x \in 1..Len(log) : log[x].op = op }

EntriesOf(op) == SelectSeq(log, LAMBDA e : e.op = op)

\* the entries of one operation made for one album
AlbumEntries(op, album) == SelectSeq(log, LAMBDA e : e.op = op /\ e.album = album)

\* how often an operation was called for one photo
Calls(op, photoId) ==
    Cardinality({ x \in Indices(op) : log[x].photo = photoId })

RECURSIVE ConcatIds(_)
ConcatIds(entries) ==
    IF entries = << >> THEN << >>
    ELSE Head(entries).ids \o ConcatIds(Tail(entries))

NoRepeats(s) == \A x, y \in 1..Len(s) : s[x] = s[y] => x = y

CeilDiv(n, b) == (n + b - 1) \div b

PhotoFailed(e) == e.op \in {"getPhoto", "uploadPhoto"} /\ ~e.ok

AlbumLevelFailed(e) == e.op \in {"createAlbum", "batchAddMediaItems"} /\ ~e.ok

\* the entries since processPhotoBatch was last invoked
LastBatchStart ==
    CHOOSE x \in Indices("processPhotoBatch") :
        \A y \in Indices("processPhotoBatch") : y <= x

ChunkLog == SubSeq(log, LastBatchStart + 1, Len(log))

\* processPhotoBatch is about to return
AtBatchReturn == pc = "photo" /\ j > Len(batch)

PhotoIdsOf(photos) == [x \in 1..Len(photos) |-> photos[x].id]

---------------------------------------------------------------------------
(* C1..C10 *)

\* C1: fail-soft within a chunk.  Whatever photos of a chunk fail in getPhoto
\* or uploadPhoto, processPhotoBatch never throws (the run is not rejected by
\* a photo's failure), every photo of the chunk is still fetched, in chunk
\* order, and what processPhotoBatch returns is exactly the ids uploadPhoto
\* returned, in chunk order.
C1_FailSoftWithinChunk ==
    /\ (Len(log) > 0 /\ PhotoFailed(log[Len(log)])) =>
           (pc \notin {"rejected", "thrown"} /\ error = "none")
    /\ (AtBatchReturn /\ ~options.dryRun) =>
           LET fetches == SelectSeq(ChunkLog, LAMBDA e : e.op = "getPhoto")
               uploads == SelectSeq(ChunkLog, LAMBDA e : e.op = "uploadPhoto")
           IN  /\ [x \in 1..Len(fetches) |-> fetches[x].photo] = PhotoIdsOf(batch)
               /\ batchPhotoIds = ConcatIds(uploads)

\* Photo 2 of a chunk of 3 failed in getPhoto; the chunk returns the ids of
\* photos 1 and 3.
C1_Witness ==
    /\ AtBatchReturn
    /\ Len(batch) = 3
    /\ Len(batchPhotoIds) = 2
    /\ \E x \in 1..Len(ChunkLog) :
          /\ ChunkLog[x].op = "getPhoto"
          /\ ~ChunkLog[x].ok
          /\ ChunkLog[x].photo = batch[2].id

\* C2: fail-fast across albums.  A failed createAlbum or membership request
\* is the last call of the run: transferAlbums is rejected with that error and
\* nothing is called for a later album.  Nothing else rejects a run that has
\* started on its albums, so a photo's failure stops neither its album nor
\* the albums after it: a run that ends normally has fetched every photo of
\* every album.
C2_FailFastAcrossAlbums ==
    /\ \A x \in 1..Len(log) :
          AlbumLevelFailed(log[x]) =>
             /\ x = Len(log)
             /\ pc = "rejected"
             /\ error = IF log[x].op = "createAlbum" THEN "createAlbum"
                                                     ELSE "addPhotosToAlbum"
    /\ (pc = "rejected" /\ error \notin {"credentials", "album not found"}) =>
           (Len(log) > 0 /\ AlbumLevelFailed(log[Len(log)]))
    /\ (pc = "done" /\ ~options.dryRun) =>
           \A a \in 1..Len(albums) : \A x \in 1..Len(albums[a].photos) :
               Calls("getPhoto", albums[a].photos[x].id) = 1

\* The membership request of the first of two albums failed after a photo of
\* that album had failed: the run is rejected, the second album untouched.
C2_Witness ==
    /\ pc = "rejected"
    /\ error = "addPhotosToAlbum"
    /\ k = 1
    /\ Len(albums) = 2
    /\ \E x \in 1..Len(log) : PhotoFailed(log[x])

\* C3: a dry run calls neither createAlbum, uploadPhoto nor addPhotosToAlbum
\* (nor a membership request), and fetches no photo.
C3_DryRunCallsNothing ==
    options.dryRun =>
       \A x \in 1..Len(log) :
          log[x].op \notin {"createAlbum", "getPhoto", "uploadPhoto",
                            "updatePhotoMetadata", "addPhotosToAlbum",
                            "batchAddMediaItems"}

\* C4: the ids of the membership requests, read in request order, are the
\* list handed to addPhotosToAlbum with every repeated id removed and each
\* first occurrence in place: no id twice (in one request or in two), and for
\* every prefix of the list, its distinct ids come first among the ids sent.
C4_DedupBeforeMembership ==
    LET sent == ConcatIds(EntriesOf("batchAddMediaItems"))
        distinct(n) == Range(SubSeq(photoIds, 1, n))
    IN  /\ NoRepeats(sent)
        /\ Range(sent) \subseteq Range(photoIds)
        /\ \A n \in 1..Len(photoIds) :
              Cardinality(distinct(n)) <= Len(sent) =>
                 Range(SubSeq(sent, 1, Cardinality(distinct(n)))) = distinct(n)
        /\ pc \in {"returned", "albums", "done"} =>
              Len(sent) = Cardinality(Range(photoIds))

\* [A, B, A, C, B] with A = 2, B = 1, C = 3 (so that sorting would show):
\* one request, [A, B, C].
C4_Witness ==
    /\ pc = "returned"
    /\ photoIds = << MediaId(2), MediaId(1), MediaId(2), MediaId(3), MediaId(1) >>
    /\ Len(EntriesOf("batchAddMediaItems")) = 1
    /\ log[Len(log)].ids = << MediaId(2), MediaId(1), MediaId(3) >>

\* C5 as claimed: the list transferAlbum passes to addPhotosToAlbum holds
\* every id at most once.
C5_ArgumentDeduplicated ==
    \A x \in Indices("addPhotosToAlbum") : NoRepeats(log[x].ids)

\* C5 as amended: transferAlbum passes the ids as collected, one per
\* successful upload of the album and in upload order, repeated ids included;
\* it is addPhotosToAlbum that removes the repeats, so the membership
\* requests of the album hold every id at most once.
C5_ArgumentAsCollected ==
    /\ \A x \in Indices("addPhotosToAlbum") :
          log[x].ids = ConcatIds(AlbumEntries("uploadPhoto", log[x].album))
    /\ \A a \in 1..Len(albums) :
          NoRepeats(ConcatIds(AlbumEntries("batchAddMediaItems", albums[a].id)))

\* Two uploads of an album returned the same id: addPhotosToAlbum was called
\* with the id twice and sent it once.
C5_Witness ==
    /\ pc = "albums"
    /\ k >= 1
    /\ Len(photoIds) = 2
    /\ photoIds[1] = photoIds[2]
    /\ log[Len(log)].op = "batchAddMediaItems"
    /\ log[Len(log)].ids = << photoIds[1] >>
    /\ log[Len(log) - 1].op = "addPhotosToAlbum"
    /\ log[Len(log) - 1].ids = photoIds

\* C6: membership batching.  Every request carries between 1 and 50 ids and
\* every request but the last exactly 50; the requests, in order, are the
\* deduplicated list cut into consecutive windows, all of it once
\* addPhotosToAlbum has returned; an empty list is sent in no request.
C6_MembershipWindows ==
    LET requests == EntriesOf("batchAddMediaItems")
        sent == ConcatIds(requests)
    IN  /\ \A x \in 1..Len(requests) :
              /\ Len(requests[x].ids) >= 1
              /\ Len(requests[x].ids) <= MembershipBatchSize
              /\ x < Len(requests) => Len(requests[x].ids) = MembershipBatchSize
        /\ requests # << >> => sent = SubSeq(uniquePhotoIds, 1, Len(sent))
        /\ pc \in {"returned", "albums", "done"} =>
              /\ sent = Unique(photoIds)
              /\ Len(requests) = CeilDiv(Len(sent), MembershipBatchSize)
        /\ photoIds = << >> => requests = << >>

\* 101 distinct ids: three requests of 50, 50 and 1 ids.
C6_Witness ==
    /\ pc = "returned"
    /\ Len(EntriesOf("batchAddMediaItems")) = 3
    /\ Len(log[Len(log)].ids) = 1
    /\ Len(log[Len(log) - 1].ids) = MembershipBatchSize

\* C7: a failed membership request is the last thing addPhotosToAlbum does:
\* the error leaves addPhotosToAlbum, and rejects the run when transferAlbum
\* made the call; no request follows, and the requests before it succeeded and
\* are followed by nothing that would take them back.
C7_WindowFailurePropagates ==
    \A x \in Indices("batchAddMediaItems") :
       ~log[x].ok =>
          /\ x = Len(log)
          /\ error = "addPhotosToAlbum"
          /\ pc = IF InTransferAlbum THEN "rejected" ELSE "thrown"
          /\ \A y \in 1..(x - 1) :
                /\ log[y].op \in {"addPhotosToAlbum", "batchAddMediaItems"}
                /\ log[y].ok

\* transferAlbum's call failed at the second window: one request succeeded,
\* the second failed, the run is rejected.
C7_Witness ==
    /\ InTransferAlbum
    /\ pc = "rejected"
    /\ Len(EntriesOf("batchAddMediaItems")) = 2
    /\ log[Len(log) - 1].ok
    /\ ~log[Len(log)].ok

\* C8: addPhotosToAlbum is never called with an empty list, and an album
\* whose photos produced no id ends without a membership call.
C8_NoEmptyMembershipCall ==
    /\ \A x \in Indices("addPhotosToAlbum") : log[x].ids # << >>
    /\ \A x \in Indices("batchAddMediaItems") : log[x].ids # << >>
    /\ (pc = "albums" /\ InTransferAlbum /\ photoIds = << >>) =>
           /\ AlbumEntries("addPhotosToAlbum", CurrentAlbum.id) = << >>
           /\ AlbumEntries("batchAddMediaItems", CurrentAlbum.id) = << >>

\* A live album of two photos, one failed in getPhoto and one in uploadPhoto:
\* the album is over and log ends with the failed call.
C8_Witness ==
    /\ pc = "albums"
    /\ InTransferAlbum
    /\ ~options.dryRun
    /\ N = 2
    /\ photoIds = << >>
    /\ \E x \in Indices("getPhoto") : ~log[x].ok
    /\ \E x \in Indices("uploadPhoto") : ~log[x].ok
    /\ PhotoFailed(log[Len(log)])

\* C9: once the chunk loop of an album of N photos is over, processPhotoBatch
\* was invoked ceil(N / B) times for it and the job's processedPhotos is N,
\* whatever photos failed.
C9_ChunkCountAndProgress ==
    AfterChunks =>
       /\ Len(AlbumEntries("processPhotoBatch", CurrentAlbum.id))
             = CeilDiv(N, BatchSizeOf(options))
       /\ (IF Tracked THEN job.processedPhotos ELSE processedPhotos) = N
       /\ Tracked => job.totalPhotos = N

\* 3 photos in chunks of 2: two chunks, a photo failed, processedPhotos is 3
\* and fewer than 3 ids were collected.
C9_Witness ==
    /\ AfterChunks
    /\ N = 3
    /\ BatchSizeOf(options) = 2
    /\ job.processedPhotos = 3
    /\ Len(photoIds) < 3
    /\ \E x \in 1..Len(log) : PhotoFailed(log[x])

\* C10: in a live run no photo is fetched or uploaded twice and a photo is
\* uploaded only after its fetch succeeded; once the chunk loop of an album is
\* over every photo of it was fetched once, and uploaded once iff its fetch
\* succeeded; the chunks hold B photos each and the last one the rest.
C10_EveryPhotoOnce ==
    /\ \A x \in Indices("uploadPhoto") :
          \E y \in 1..(x - 1) :
             log[y].op = "getPhoto" /\ log[y].photo = log[x].photo /\ log[y].ok
    /\ \A x, y \in Indices("getPhoto") : log[x].photo = log[y].photo => x = y
    /\ \A x, y \in Indices("uploadPhoto") : log[x].photo = log[y].photo => x = y
    /\ (AfterChunks /\ ~options.dryRun) =>
          LET chunks == AlbumEntries("processPhotoBatch", CurrentAlbum.id)
              B == BatchSizeOf(options)
          IN  /\ \A x \in 1..N :
                    LET p == CurrentAlbum.photos[x].id
                    IN  /\ Calls("getPhoto", p) = 1
                        /\ Calls("uploadPhoto", p) =
                              IF \E y \in Indices("getPhoto") :
                                    log[y].photo = p /\ log[y].ok
                                THEN 1 ELSE 0
              /\ \A x \in 1..Len(chunks) :
                    chunks[x].photo = IF x < Len(chunks) THEN B
                                      ELSE N - (Len(chunks) - 1) * B

\* 3 photos, B = 2, no failure: chunks of 2 and 1 photos, 3 uploads.
C10_Witness ==
    /\ AfterChunks
    /\ ~options.dryRun
    /\ N = 3
    /\ BatchSizeOf(options) = 2
    /\ Len(AlbumEntries("uploadPhoto", CurrentAlbum.id)) = 3
    /\ LET chunks == AlbumEntries("processPhotoBatch", CurrentAlbum.id)
       IN  Len(chunks) = 2 /\ chunks[1].photo = 2 /\ chunks[2].photo = 1

---------------------------------------------------------------------------
(* C11..C20 *)

\* the source photos of an album whose upload returned this id
Producers(album, id) ==
    { log[x].photo : x \in { y \in Indices("uploadPhoto") :
                               log[y].album = album /\ log[y].ids = << id >> } }

\* the first of them in the source album (photo ids grow with the position)
FirstProducer(album, id) ==
    CHOOSE p \in Producers(album, id) : \A q \in Producers(album, id) : p <= q

\* C11: end-to-end ordering.  Whatever the batch size and whatever photos
\* fail, every id in an album's membership requests was produced by a photo of
\* that album, and the ids follow each other as their first producing photos
\* follow each other in the source album.
C11_MembershipKeepsSourceOrder ==
    \A a \in 1..Len(albums) :
       LET sent == ConcatIds(AlbumEntries("batchAddMediaItems", albums[a].id))
       IN  /\ \A x \in 1..Len(sent) : Producers(albums[a].id, sent[x]) # {}
           /\ \A x, y \in 1..Len(sent) :
                 x < y => FirstProducer(albums[a].id, sent[x])
                            < FirstProducer(albums[a].id, sent[y])

\* Three photos in chunks of 2 giving ids 2, 1, 2: the request is [2, 1],
\* the repeated id at the place of the first photo.
C11_Witness ==
    /\ pc = "albums"
    /\ InTransferAlbum
    /\ N = 3
    /\ BatchSizeOf(options) = 2
    /\ photoIds = << MediaId(2), MediaId(1), MediaId(2) >>
    /\ log[Len(log)].op = "batchAddMediaItems"
    /\ log[Len(log)].ids = << MediaId(2), MediaId(1) >>

\* the job records written for an album, and those that reached the disk
Saves(album) == AlbumEntries("saveJob", album)

Persisted(album) == SelectSeq(Saves(album), LAMBDA e : e.ok)

Last(s) == s[Len(s)]

\* the error a failed createAlbum or membership request throws
ErrorOf(e) == IF e.op = "createAlbum" THEN "createAlbum" ELSE "addPhotosToAlbum"

\* transferAlbum has returned normally for album a of the run
ReturnedNormally(a) == a < k \/ (a = k /\ pc \in {"albums", "done"})

JobCompleted(a) ==
    /\ Persisted(albums[a].id) # << >>
    /\ Last(Persisted(albums[a].id)).job.status = "completed"
    /\ Last(Persisted(albums[a].id)).job.ended
    /\ Last(Saves(albums[a].id)).ok

StatusSteps(album) ==
    { << Saves(album)[x].job.status, Saves(album)[x + 1].job.status >> :
         x \in 1..(Len(Saves(album)) - 1) }

Places(op, album) ==
    SelectSeq([x \in 1..Len(log) |-> x],
              LAMBDA x : log[x].op = op /\ log[x].album = album)

\* the place in the history of the n-th call of an operation for an album
NthCall(op, album, n) == Places(op, album)[n]

\* C15: job write sequence.  When transferAlbum has returned normally for an
\* album of N photos, the job was written 1 + ceil(N / B) + 1 times: first as
\* pending with processedPhotos 0, before createAlbum; then once after each
\* chunk (after the chunk's photo calls and directly before the next chunk
\* starts) as in_progress with processedPhotos = min(chunk end, N); and last,
\* after everything else done for the album, as completed with an endTime.
C15_JobWriteSequence ==
    \A a \in 1..Len(albums) :
       (Tracked /\ ReturnedNormally(a)) =>
          LET album == albums[a].id
              n == Len(albums[a].photos)
              B == BatchSizeOf(options)
              chunks == CeilDiv(n, B)
              s == Saves(album)
              writes == Places("saveJob", album)
              starts == Places("processPhotoBatch", album)
              creates == Places("createAlbum", album)
          IN  /\ Len(s) = 1 + chunks + 1
              /\ Len(starts) = chunks
              /\ s[1].job.status = "pending"
              /\ s[1].job.processedPhotos = 0
              /\ ~s[1].job.ended
              /\ \A x \in 1..Len(creates) : writes[1] < creates[x]
              /\ \A c \in 1..chunks :
                    /\ s[1 + c].job.status = "in_progress"
                    /\ s[1 + c].job.processedPhotos = Min(c * B, n)
                    /\ ~s[1 + c].job.ended
                    /\ starts[c] < writes[1 + c]
                    /\ \A x \in (starts[c] + 1)..(writes[1 + c] - 1) :
                          /\ log[x].album = album
                          /\ log[x].op \in {"getPhoto", "uploadPhoto", "updatePhotoMetadata"}
                    /\ c < chunks => starts[c + 1] = writes[1 + c] + 1
              /\ s[Len(s)].job.status = "completed"
              /\ s[Len(s)].job.ended
              /\ s[Len(s)].job.processedPhotos = n
              /\ \A x \in (writes[Len(s)] + 1)..Len(log) : log[x].album # album

\* Three photos in chunks of 2, live: the job was written four times, with
\* pending 0, in_progress 2, in_progress 3, completed 3.
C15_Witness ==
    /\ pc = "albums"
    /\ InTransferAlbum
    /\ ~options.dryRun
    /\ N = 3
    /\ BatchSizeOf(options) = 2
    /\ Len(Saves(CurrentAlbum.id)) = 4
    /\ Saves(CurrentAlbum.id)[3].job.processedPhotos = 3
    /\ Saves(CurrentAlbum.id)[3].job.status = "in_progress"
    /\ log[Len(log)].op = "saveJob"
    /\ log[Len(log)].job.status = "completed"

\* the photos handed to processPhotoBatch so far for an album
Started(album) ==
    LET chunks == AlbumEntries("processPhotoBatch", album)
    IN  SumSeq([x \in 1..Len(chunks) |-> chunks[x].photo])

\* the photos of the chunk in hand that processPhotoBatch has yet to finish
Unfinished(a) ==
    IF a = k /\ pc \in {"photo", "upload", "metadata"}
      THEN Len(batch) - (j - 1) ELSE 0

\* C16: wherever the run stops, the job record last persisted for an album
\* stands at the end of a chunk that was processed completely: its
\* processedPhotos is min(c * B, N) for one of the chunks begun (or 0), no
\* more than the photos processed so far and at most one batch behind the
\* photos handed to processPhotoBatch; and it is completed only when every
\* chunk was processed.
C16_PersistedJobReflectsChunks ==
    \A a \in 1..k :
       LET album == albums[a].id
           persisted == Persisted(album)
       IN  persisted # << >> =>
              LET n == Len(albums[a].photos)
                  B == BatchSizeOf(options)
                  record == Last(persisted).job
                  begun == Len(AlbumEntries("processPhotoBatch", album))
                  handed == Started(album)
                  finished == handed - Unfinished(a)
              IN  /\ \E c \in 0..begun : record.processedPhotos = Min(c * B, n)
                  /\ record.processedPhotos <= finished
                  /\ handed - record.processedPhotos <= B
                  /\ record.status = "completed" =>
                        /\ begun = CeilDiv(n, B)
                        /\ finished = n

\* Three photos in chunks of 2, stopped while the third photo is uploaded:
\* the persisted record is in_progress with processedPhotos 2.
C16_Witness ==
    /\ pc = "upload"
    /\ N = 3
    /\ BatchSizeOf(options) = 2
    /\ i = 2
    /\ Last(Persisted(CurrentAlbum.id)).job.status = "in_progress"
    /\ Last(Persisted(CurrentAlbum.id)).job.processedPhotos = 2
    /\ Started(CurrentAlbum.id) = 3

\* C17: inter-batch pacing.  A pause is followed at once by the start of a
\* chunk and preceded by the end of the previous chunk of the same album;
\* every chunk but an album's first starts right after a pause, and the first
\* does not.  So no pause comes before the first chunk or after the last, and
\* an album of N > 0 photos whose chunks are done had ceil(N / B) - 1 pauses.
C17_PauseBetweenChunks ==
    /\ \A x \in Indices("pause") :
          /\ x > 1
          /\ log[x - 1].album = log[x].album
          /\ log[x - 1].op \in {"processPhotoBatch", "getPhoto", "uploadPhoto"}
          /\ IF x = Len(log)
               THEN pc = "batch"
               ELSE /\ log[x + 1].op = "processPhotoBatch"
                    /\ log[x + 1].album = log[x].album
    /\ \A x \in Indices("processPhotoBatch") :
          IF x = NthCall("processPhotoBatch", log[x].album, 1)
            THEN x = 1 \/ log[x - 1].op # "pause"
            ELSE log[x - 1].op = "pause"
    /\ pc = "batch" => log[Len(log)].op = "pause"
    /\ \A a \in 1..Len(albums) :
          (albums[a].photos # << >> /\ (a < k \/ (a = k /\ AfterChunks))) =>
             Len(AlbumEntries("pause", albums[a].id))
                = CeilDiv(Len(albums[a].photos), BatchSizeOf(options)) - 1

\* Three photos one by one: two pauses, and the membership call follows the
\* last chunk directly.
C17_Witness ==
    /\ InTransferAlbum
    /\ N = 3
    /\ BatchSizeOf(options) = 1
    /\ Len(AlbumEntries("pause", CurrentAlbum.id)) = 2
    /\ log[Len(log)].op = "addPhotosToAlbum"
    /\ log[Len(log) - 1].op = "uploadPhoto"

PlaceOf(albumId) == CHOOSE a \in 1..Len(albums) : albums[a].id = albumId

PhotoOps == {"getPhoto", "uploadPhoto"}

\* C19: operation order.  The calls follow the album list: no call for an
\* album comes after a call for a later one.  Within an album createAlbum
\* comes first, the photos are fetched in source order, chunk after chunk
\* and photo after photo inside a chunk, an upload directly follows the
\* successful fetch of its own photo, and addPhotosToAlbum comes after every
\* chunk and photo call of the album.
C19_OperationOrder ==
    /\ \A x \in 1..(Len(log) - 1) :
          PlaceOf(log[x].album) <= PlaceOf(log[x + 1].album)
    /\ \A x \in Indices("createAlbum") :
          \A y \in 1..(x - 1) :
             log[y].album = log[x].album =>
                log[y].op \notin PhotoOps \cup {"processPhotoBatch", "addPhotosToAlbum"}
    /\ LET fetches == EntriesOf("getPhoto")
       IN  \A x \in 1..(Len(fetches) - 1) : fetches[x].photo < fetches[x + 1].photo
    /\ \A x \in Indices("uploadPhoto") :
          /\ x > 1
          /\ log[x - 1].op = "getPhoto"
          /\ log[x - 1].photo = log[x].photo
          /\ log[x - 1].ok
    /\ \A x \in Indices("processPhotoBatch") :
          LET c == Cardinality({ z \in Indices("processPhotoBatch") :
                                   log[z].album = log[x].album /\ z <= x })
              first == albums[PlaceOf(log[x].album)].photos[1].id
                       + (c - 1) * BatchSizeOf(options)
          IN  \A y \in Indices("getPhoto") \cup Indices("uploadPhoto") :
                 log[y].album = log[x].album => ((y < x) = (log[y].photo < first))
    /\ \A x \in Indices("addPhotosToAlbum") :
          /\ \A y \in (x + 1)..Len(log) :
                log[y].album = log[x].album =>
                   log[y].op \notin PhotoOps \cup {"processPhotoBatch", "pause"}
          /\ Len(AlbumEntries("processPhotoBatch", log[x].album))
                = CeilDiv(Len(albums[PlaceOf(log[x].album)].photos),
                          BatchSizeOf(options))

\* Two albums, of 2 photos and of 1 photo, one photo per chunk, all
\* transferred: the first album's membership request precedes the second
\* album's createAlbum.
C19_Witness ==
    /\ pc = "done"
    /\ ~options.dryRun
    /\ Len(albums) = 2
    /\ Len(albums[1].photos) = 2
    /\ BatchSizeOf(options) = 1
    /\ Len(EntriesOf("uploadPhoto")) = 3
    /\ Len(EntriesOf("batchAddMediaItems")) = 2
    /\ NthCall("batchAddMediaItems", albums[1].id, 1)
          < NthCall("createAlbum", albums[2].id, 1)

\* an argument of createGoogleDescription is present: neither undefined nor ''
Present(value) == value # Undefined /\ value # Str(<< >>)

Prefix(s, n) == SubSeq(s, 1, n)
Suffix(s, n) == SubSeq(s, Len(s) - n + 1, Len(s))

\* C20: createGoogleDescription returns a string: the name, " - " and the
\* description, in this order, when both are present; the name when only it
\* is present; the description when only it is present; the empty string
\* when neither is.
C20_CreateGoogleDescription ==
    pc = "described" =>
       LET name == flickrName.text
           description == flickrDescription.text
           result == googleDescription.text
       IN  /\ googleDescription.defined
           /\ (Present(flickrName) /\ Present(flickrDescription)) =>
                 /\ Len(result) = Len(name) + 3 + Len(description)
                 /\ Prefix(result, Len(name)) = name
                 /\ SubSeq(result, Len(name) + 1, Len(name) + 3) = << " ", "-", " " >>
                 /\ Suffix(result, Len(description)) = description
           /\ (Present(flickrName) /\ ~Present(flickrDescription)) => result = name
           /\ (~Present(flickrName) /\ Present(flickrDescription)) => result = description
           /\ (~Present(flickrName) /\ ~Present(flickrDescription)) => result = << >>

\* "a" and "-a" give "a - -a".
C20_Witness ==
    /\ pc = "described"
    /\ flickrName = Str(<< "a" >>)
    /\ flickrDescription = Str(<< "-", "a" >>)
    /\ googleDescription = Str(<< "a", " ", "-", " ", "-", "a" >>)

---------------------------------------------------------------------------
(* C21: in a dry run processPhotoBatch returns, for every photo of the      *)
(* chunk and in chunk order, the placeholder dry_run_<photoId>, so the      *)
(* result is as long as the chunk; one "[DRY RUN] Would transfer" line is   *)
(* written with every placeholder, so once the chunks of an album of N      *)
(* photos are done a dry run has reported N of them, the placeholders of    *)
(* the album's photos in album order, and a live run has attempted          *)
(* (getPhoto) the same number N of photos.                                  *)
C21_DryRunPlaceholders ==
    /\ (AtBatchReturn /\ options.dryRun) =>
          /\ Len(batchPhotoIds) = Len(batch)
          /\ \A x \in 1..Len(batch) :
                batchPhotoIds[x] = [kind |-> "dry_run", id |-> batch[x].id]
    /\ (AfterChunks /\ options.dryRun) =>
          /\ Len(photoIds) = N
          /\ \A x \in 1..N :
                photoIds[x] = [kind |-> "dry_run", id |-> CurrentAlbum.photos[x].id]
    /\ (AfterChunks /\ ~options.dryRun) =>
          Len(AlbumEntries("getPhoto", CurrentAlbum.id)) = N

\* a dry run of an album of three photos in chunks of two is through its
\* chunks with three placeholders
C21_Witness ==
    /\ AfterChunks
    /\ options.dryRun
    /\ N = 3
    /\ BatchSizeOf(options) = 2
    /\ Len(photoIds) = 3
    /\ photoIds[3].kind = "dry_run"

---------------------------------------------------------------------------
\* a collaborator call of the album level that failed
AlbumCallFailed ==
    \E x \in 1..Len(log) :
        /\ ~log[x].ok
        /\ log[x].op \in {"saveJob", "createAlbum", "batchAddMediaItems"}

(* C22: whatever photoCount an album declares, the transfer works on the    *)
(* photos that were read: every job record written for the album has        *)
(* totalPhotos = photos.length, once the chunk loop is over exactly          *)
(* photos.length photos were attempted (live: fetched; dry run: reported),  *)
(* and the run is rejected only for missing credentials, an unknown album   *)
(* or a failed album-level call, never for the difference.                  *)
C22_TransfersWhatWasRead ==
    /\ \A x \in Indices("saveJob") :
          log[x].job.totalPhotos = Len(Head(FindAlbum(log[x].album)).photos)
    /\ AfterChunks =>
          IF options.dryRun
            THEN Len(photoIds) = Len(CurrentAlbum.photos)
            ELSE Len(AlbumEntries("getPhoto", CurrentAlbum.id)) = Len(CurrentAlbum.photos)
    /\ pc = "rejected" =>
          error \in {"credentials", "album not found"} \/ AlbumCallFailed

\* an album that declares four photos, of which two were read (the id '0'
\* dropped, one photo without metadata), has been transferred: two photos
\* fetched, totalPhotos = 2 in the completed record
C22_Witness ==
    /\ pc = "done"
    /\ ~options.dryRun
    /\ catalog[1].photoCount = 4
    /\ Len(catalog[1].photos) = 2
    /\ Len(AlbumEntries("getPhoto", 1)) = 2
    /\ Persisted(1) # << >>
    /\ Last(Persisted(1)).job.status = "completed"
    /\ Last(Persisted(1)).job.totalPhotos = 2

---------------------------------------------------------------------------
\* the run names an album the source does not hold
UnknownAlbum ==
    /\ options.albumId # NoAlbumId
    /\ \A a \in 1..Len(catalog) : catalog[a].id # options.albumId

(* C23: a run given an album id the source does not hold is rejected with   *)
(* 'Album <id> not found' as soon as the album is looked up, and nothing     *)
(* was called by then: no job record written, no createAlbum, uploadPhoto    *)
(* or addPhotosToAlbum; the error arises in no other case.                   *)
C23_UnknownAlbumRejected ==
    /\ (UnknownAlbum /\ pc \notin {"start", "resolve"}) =>
          /\ pc = "rejected"
          /\ error \in {"credentials", "album not found"}
          /\ log = << >>
    /\ error = "album not found" =>
          /\ UnknownAlbum
          /\ pc = "rejected"
          /\ log = << >>

\* the export holds albums, the run names another one and was rejected
C23_Witness ==
    /\ catalog # << >>
    /\ options.albumId = MissingAlbumId
    /\ pc = "rejected"
    /\ error = "album not found"

---------------------------------------------------------------------------
(* C24: with destination credentials missing or unusable (no configuration, *)
(* or one without a usable access token) a transferAlbums run, live or dry,  *)
(* is rejected before any album is touched: once past initialize it is       *)
(* rejected with the credentials error, no source album was read, no job     *)
(* record written and no destination call made.                              *)
C24_BadCredentialsTouchNothing ==
    (credentials # "authenticated" /\ pc # "start") =>
        /\ pc = "rejected"
        /\ error = "credentials"
        /\ albums = << >>
        /\ log = << >>

---------------------------------------------------------------------------
(* C25: whatever text the transfer command is given as --batch-size         *)
(* (none, zero, not a number, negative), the batch size the chunking loop   *)
(* uses is an integer >= 1, and it is the default 10 when the option is     *)
(* missing or zero.                                                         *)
C25_BatchSizeAtLeastOne ==
    pc = "chunking" =>
        /\ batchSize \in Int
        /\ batchSize >= 1
        /\ (batchSizeArg = Undefined \/ parsedBatchSize = Num(0)) =>
              batchSize = DefaultBatchSize


---------------------------------------------------------------------------
(* The job query: checkTransferStatus, getJob, getAllJobs *)

\* a Date object, and the text JSON.stringify makes of it (toISOString)
Date(t) == [type |-> "Date", time |-> t]
toJSON(value) == [type |-> "string", time |-> value.time]

\* fs.writeJson(jobPath, job): the file holds the job as JSON, its
\* startTime as text
writeJson(record) == [record EXCEPT !.startTime = toJSON(@)]

\* fs.readJson(jobPath): JSON.parse, which leaves the text of a date a text
readJson(file) == file

\* the TransferJob of album a as transferAlbum saved it last: the id is
\* unique to the album of the run, startTime is when transferAlbum began,
\* later for every later album
SavedJob(a) ==
    [ id        |-> a,
      startTime |-> Date(PlaceOf(a)),
      job       |-> Last(Persisted(a)).job ]

\* the albums of the run whose job record was written at least once
AlbumsWithJob ==
    SelectSeq([x \in 1..k |-> albums[x].id], LAMBDA a : Persisted(a) # << >>)

\* the .json files of .transfer-jobs, as readdir lists them
JobFiles == [x \in 1..Len(AlbumsWithJob) |-> writeJson(SavedJob(AlbumsWithJob[x]))]

\* value.getTime(): a method of Date objects only
HasGetTime(value) == value.type = "Date"

\* jobs.sort((a, b) => b.startTime.getTime() - a.startTime.getTime()),
\* where getTime exists: latest start first, equal starts in the order met
RECURSIVE SortByStartTime(_)
SortByStartTime(jobs) ==
    IF jobs = << >> THEN << >>
    ELSE LET rest  == SortByStartTime(Tail(jobs))
             later == SelectSeq(rest, LAMBDA r : r.startTime.time > Head(jobs).startTime.time)
             other == SelectSeq(rest, LAMBDA r : r.startTime.time <= Head(jobs).startTime.time)
         IN  later \o << Head(jobs) >> \o other

\* getAllJobs: every file is read, the jobs are sorted; the comparator runs
\* as soon as there are two jobs, and whatever is thrown inside the try
\* block ends in catch { return [] }
getAllJobs(files) ==
    LET jobs == [x \in 1..Len(files) |-> readJson(files[x])]
    IN  IF Len(jobs) >= 2 /\ \E x \in 1..Len(jobs) : ~HasGetTime(jobs[x].startTime)
          THEN << >>
          ELSE SortByStartTime(jobs)

\* getJob: the file of that id, read; null when there is none
getJob(files, jobId) ==
    LET found == SelectSeq(files, LAMBDA f : f.id = jobId)
    IN  [x \in 1..Len(found) |-> readJson(found[x])]

\* checkTransferStatus(jobId?), called once the run is over.  reported is
\* what it lists: all jobs ('No transfer jobs found' for none), one job, or
\* 'Job <id> not found'.
CheckTransferStatus ==
    /\ pc \in {"done", "rejected"}
    /\ reported = NoReport
    /\ \E jobId \in {NoJobId} \cup (1..MissingAlbumId) :
         reported' =
           IF jobId = NoJobId
             THEN [kind |-> "list", jobId |-> jobId, jobs |-> getAllJobs(JobFiles)]
             ELSE IF getJob(JobFiles, jobId) = << >>
                    THEN [kind |-> "not found", jobId |-> jobId, jobs |-> << >>]
                    ELSE [kind |-> "job", jobId |-> jobId, jobs |-> getJob(JobFiles, jobId)]
    /\ UNCHANGED << Given, credentials, CommandLine, Cli, resumed, Accounts, pc, RunLocals >>

NextJobs == NextTracked \/ CheckTransferStatus

SpecJobs == InitTracked /\ [][NextJobs]_vars

---------------------------------------------------------------------------
\* the job records stored by the run, one per album that got that far
StoredJobs == { SavedJob(AlbumsWithJob[x]) : x \in 1..Len(AlbumsWithJob) }

\* a reported job stands for a stored one: same id, same record, same start
Reports(r, stored) ==
    /\ r.id = stored.id
    /\ r.job = stored.job
    /\ r.startTime.time = stored.startTime.time

(* C26: after the transfers of a run have persisted k >= 0 job records,      *)
(* checkTransferStatus without a job id lists all k of them, latest start    *)
(* first; with a job id it reports the stored record of that id, or 'not     *)
(* found' when no record has that id.                                        *)
C26_JobQuery ==
    /\ reported.kind = "list" =>
          /\ Len(reported.jobs) = Cardinality(StoredJobs)
          /\ \A s \in StoredJobs : \E x \in 1..Len(reported.jobs) :
                Reports(reported.jobs[x], s)
          /\ \A x \in 1..(Len(reported.jobs) - 1) :
                reported.jobs[x].startTime.time >= reported.jobs[x + 1].startTime.time
    /\ reported.kind = "job" =>
          /\ Len(reported.jobs) = 1
          /\ \E s \in StoredJobs :
                s.id = reported.jobId /\ Reports(reported.jobs[1], s)
    /\ reported.kind = "not found" =>
          \A s \in StoredJobs : s.id # reported.jobId

---------------------------------------------------------------------------
\* album.description && album.description.trim(): the album has a
\* description worth a warning
HasDescription(album) ==
    /\ album.description # Undefined
    /\ \E x \in 1..Len(album.description.text) : album.description.text[x] # " "

(* C28: the description of an album never reaches the destination: for an   *)
(* album with a non-empty description createAlbum is called with the title  *)
(* alone, as for an album without one, and no other call carries it.         *)
C28_DescriptionNeverSent ==
    \A x \in 1..Len(log) :
        (log[x].op # "saveJob" /\ HasDescription(Head(FindAlbum(log[x].album)))) =>
            log[x].description = Undefined

---------------------------------------------------------------------------
(* C27: listFlickrAlbums only reads: whether it lists the albums or is       *)
(* rejected (no configuration, export unreadable, album that cannot be       *)
(* printed), it has called neither createAlbum nor uploadPhoto nor           *)
(* addPhotosToAlbum and has written no job record; it has called nothing     *)
(* the history keeps.                                                        *)
C27_ListingOnlyReads ==
    command = "list-albums" =>
        /\ \A x \in 1..Len(log) :
              log[x].op \notin {"createAlbum", "uploadPhoto", "batchAddMediaItems",
                                "saveJob"}
        /\ log = << >>
        /\ pc \in {"list", "getAlbums", "listed", "rejected"}

\* list-albums has listed an export of two albums with an authenticated
\* configuration at hand, and has ended
C27_Witness ==
    /\ command = "list-albums"
    /\ pc = "listed"
    /\ Len(albums) = 2
    /\ credentials = "authenticated"
    /\ processExit.exited

---------------------------------------------------------------------------
(* C29: a transfer or list-albums command ends with exit code 0 exactly      *)
(* when transferAlbums / listFlickrAlbums returned, and with exit code 1     *)
(* exactly when it rejected; a rejection always has a configuration,         *)
(* source or album-level failure behind it, so failures of single photos     *)
(* alone never give exit code 1.                                             *)
C29_ExitStatus ==
    processExit.exited =>
        /\ processExit.code \in {0, 1}
        /\ processExit.code = 0 <=> pc \in {"done", "listed"}
        /\ processExit.code = 1 <=> pc = "rejected"
        /\ processExit.code = 1 =>
              \/ error \in {"credentials", "album not found", "getAlbums", "print"}
              \/ \E x \in 1..Len(log) : AlbumLevelFailed(log[x])

\* a live transfer in which a photo failed and no album-level call did has
\* ended with exit code 0
C29_Witness ==
    /\ command = "transfer"
    /\ processExit.exited
    /\ processExit.code = 0
    /\ ~options.dryRun
    /\ \E x \in 1..Len(log) : PhotoFailed(log[x])
    /\ \E x \in 1..Len(log) : log[x].op = "uploadPhoto" /\ log[x].ok

---------------------------------------------------------------------------
(* C30: when transfer is invoked again after a run failed in an album and    *)
(* left a job record of it, the second run continues from that record: it    *)
(* creates no second destination album for the album, and it neither         *)
(* fetches nor uploads again the photos the record counts as processed.      *)
C30_ResumeContinues ==
    resumed > 0 =>
        LET first     == SubSeq(log, 1, resumed)
            second    == SubSeq(log, resumed + 1, Len(log))
            left      == LeftRecord(first)
            album     == Head(FindAlbum(left.album))
            processed == { album.photos[x].id : x \in 1..left.job.processedPhotos }
        IN  /\ (\E x \in 1..Len(first) :
                   first[x].op = "createAlbum" /\ first[x].ok /\ first[x].album = album.id)
                => \A y \in 1..Len(second) :
                       ~(second[y].op = "createAlbum" /\ second[y].album = album.id)
            /\ \A y \in 1..Len(second) :
                   second[y].op \in {"getPhoto", "uploadPhoto"} =>
                       ~(second[y].album = album.id /\ second[y].photo \in processed)

---------------------------------------------------------------------------
(* The loopback OAuth handshake: getAuthCode, the callback route, cleanup   *)
(* (HapiOAuthHandler, the earlier HapiOAuthHandler, OAuthCallbackHandler)   *)

\* how many callback requests the callback server gets
MaxCallbacks == 2

\* the transfer pipeline
Pipeline == << Given, CommandLine, reported, Cli, resumed, pc, RunLocals >>
Transfer == << Pipeline, credentials >>

\* everything but the handshake
BesidesHandshake == << Transfer, FlickrOAuth, Gate, Authentication >>

\* no transfer runs: the pipeline's variables at rest
NoPipeline ==
    /\ revision = "tracked"
    /\ catalog = << >>
    /\ options = [albumId |-> NoAlbumId, dryRun |-> FALSE, batchSize |-> DefaultBatchSize]
    /\ pc = "account"
    /\ InitLocals
    /\ started = 0
    /\ NoDescription
    /\ NoCommandLine
    /\ reported = NoReport
    /\ NoCli
    /\ resumed = 0

\* no transfer runs, the destination's credentials are stored
NoTransfer == NoPipeline /\ credentials = "authenticated"

\* request.query of a callback request: code, error, error_description,
\* each absent, empty or a text
Codes == { Undefined, Str(<< >>), Str(<< "4" >>), Str(<< "4", "2" >>) }
Errors == { Undefined, Str(<< >>), Str(<< "e" >>) }
ErrorDescriptions == { Undefined, Str(<< >>), Str(<< "d" >>) }

NoQuery == [code |-> Undefined, error |-> Undefined, error_description |-> Undefined]

\* the requests the callback server may get: GET /oauth2callback?..., and
\* (OAuthCallbackHandler, which looks at the method itself) an OPTIONS request
Requests ==
    [ method : {"GET"},
      query  : [code : Codes, error : Errors, error_description : ErrorDescriptions] ]
    \cup { [method |-> "OPTIONS", query |-> NoQuery] }

\* the route (hapi) or the handler (http) that runs for a request
Routed(class, request) == class = "http" \/ request.method = "GET"

\* Error messages
TimedOut == << "OAuth authentication timed out. Please try again." >>
MissingCode == << "Authorization code not found in callback URL" >>
PortInUse == << "Port ", "port", " is already in use. Please try again." >>

\* `OAuth error: ${error} - ${error_description || 'Unknown error'}`
OAuthError(name, description) ==
    << "OAuth error: " >> \o name.text \o << " - " >>
       \o (IF Truthy(description) THEN description.text ELSE << "Unknown error" >>)

\* catch (error) { if (error.code === 'EADDRINUSE') throw new Error(`Port ...`); throw error }
StartError(code) == IF code = "EADDRINUSE" THEN PortInUse ELSE << code >>

\* Mutant: every class nulls its callbacks in cleanup
KeepsCallbacks_Never(class) == FALSE

\* cleanup() of HapiOAuthHandler.ts ends after stopping the server; the
\* earlier HapiOAuthHandler and OAuthCallbackHandler go on with
\* this.resolvePromise = null; this.rejectPromise = null
KeepsCallbacks(class) == class = "hapi"

\* the handler's fields after cleanup()
cleanup(class, h) ==
    [ server         |-> FALSE,
      timeoutId      |-> FALSE,
      resolvePromise |-> h.resolvePromise /\ KeepsCallbacks(class),
      rejectPromise  |-> h.rejectPromise /\ KeepsCallbacks(class) ]

\* Mutant: the timer is left armed
clearTimeout_Forgets(t) == t

\* clearTimeout(id): an armed timer will not fire; nothing else changes
clearTimeout(t) == IF t = "armed" THEN "cleared" ELSE t

\* Mutant: the server is left as it is
stop_Forgets(l) == l

\* server.stop() / server.close(): no new request is accepted
stop(l) == IF l \in {"starting", "listening"} THEN "stopped" ELSE l

\* cleanup(), run when the timer is t and the server l
Cleanup(t, l) ==
    /\ handler' = cleanup(handlerClass, handler)
    /\ timer' = IF handler.timeoutId THEN clearTimeout(t) ELSE t
    /\ listener' = IF handler.server THEN stop(l) ELSE l

\* resolve(value) / reject(error) of a promise: the first call settles it,
\* later calls do nothing; callback?.(...) calls nothing when callback is null
Call(callback, p, outcome) == IF callback /\ p.state = "pending" THEN outcome ELSE p

\* the route handler: if (error) reject 'OAuth error' else if (code)
\* resolve({ code }) else reject 'Authorization code not found'
Outcome(query) ==
    IF Truthy(query.error)
      THEN Rejected(OAuthError(query.error, query.error_description))
      ELSE IF Truthy(query.code)
             THEN Resolved(query.code)
             ELSE Rejected(MissingCode)

Event(kind, query) == [kind |-> kind, query |-> query]

CallbacksHandled == Cardinality({ x \in 1..Len(events) : events[x].kind = "callback" })

\* getAuthCode(options): the promise executor keeps resolve and reject, arms
\* the timer and creates the server, whose start is awaited
GetAuthCode ==
    /\ promise = NoPromise
    /\ handlerClass \in HandlerClasses
    /\ promise' = Pending
    /\ handler' = [ server |-> TRUE, timeoutId |-> TRUE, resolvePromise |-> TRUE,
                    rejectPromise |-> TRUE ]
    /\ timer' = "armed"
    /\ chain' = "starting"
    /\ listener' = "starting"
    /\ UNCHANGED << BesidesHandshake, handlerClass, accepted, events >>

\* await this.server.start() returns (server.listen's callback runs): the
\* browser is opened next
ServerStarts ==
    /\ chain = "starting"
    /\ chain' = "opening"
    /\ listener' = IF listener = "starting" THEN "listening" ELSE listener
    /\ UNCHANGED << BesidesHandshake, handlerClass, handler, promise, timer, accepted, events >>

\* the server cannot start: .catch(error => { this.cleanup(); reject(error) })
\* (server.on('error', ...) of OAuthCallbackHandler does the same)
ServerStartFails ==
    /\ chain = "starting"
    /\ \E code \in {"EADDRINUSE", "EACCES"} :
         promise' = Call(TRUE, promise, Rejected(StartError(code)))
    /\ Cleanup(timer, IF listener = "starting" THEN "failed" ELSE listener)
    /\ chain' = "failed"
    /\ events' = Append(events, Event("startFailed", NoQuery))
    /\ UNCHANGED << BesidesHandshake, handlerClass, accepted >>

\* openBrowser(url) returns; it resolves whether or not a browser opened
\* (OAuthCallbackHandler logs a rejection and goes on)
BrowserReturns ==
    /\ chain = "opening"
    /\ chain' = "open"
    /\ UNCHANGED << BesidesHandshake, handlerClass, handler, promise, timer, listener, accepted, events >>

\* the listening server accepts a request; its handler runs in a later turn
\* of the event loop
RequestArrives ==
    /\ listener = "listening"
    /\ Len(accepted) + CallbacksHandled < MaxCallbacks
    /\ \E request \in Requests :
         /\ Routed(handlerClass, request)
         /\ accepted' = Append(accepted, request)
    /\ UNCHANGED << BesidesHandshake, handlerClass, handler, promise, timer, chain, listener, events >>

\* the handler of an accepted request runs: the page is made, cleanup() is
\* called, then this.rejectPromise?.(...) or this.resolvePromise?.({ code }).
\* OAuthCallbackHandler answers an OPTIONS request and returns.
HandleRequest ==
    /\ accepted # << >>
    /\ accepted' = Tail(accepted)
    /\ LET request  == Head(accepted)
           outcome  == Outcome(request.query)
           after    == cleanup(handlerClass, handler)
           callback == IF outcome.state = "resolved" THEN after.resolvePromise
                                                      ELSE after.rejectPromise
       IN  IF request.method = "OPTIONS"
             THEN UNCHANGED << handler, promise, timer, listener, events >>
             ELSE /\ Cleanup(timer, listener)
                  /\ promise' = Call(callback, promise, outcome)
                  /\ events' = Append(events, Event("callback", request.query))
    /\ UNCHANGED << BesidesHandshake, handlerClass, chain >>

\* the timer fires: this.cleanup(); reject(new Error('OAuth authentication
\* timed out. Please try again.'))
TimeoutFires ==
    /\ timer = "armed"
    /\ Cleanup("fired", listener)
    /\ promise' = Call(TRUE, promise, Rejected(TimedOut))
    /\ events' = Append(events, Event("timeout", NoQuery))
    /\ UNCHANGED << BesidesHandshake, handlerClass, chain, accepted >>

InitHandshakeOf(classes) ==
    /\ NoTransfer
    /\ NoAuthentication
    /\ NoGate
    /\ NoFlickrOAuth
    /\ handlerClass \in classes
    /\ handler = NewHandler
    /\ promise = NoPromise
    /\ timer = "none"
    /\ chain = "none"
    /\ listener = "none"
    /\ accepted = << >>
    /\ events = << >>

InitHandshake == InitHandshakeOf({"hapi"})

NextHandshake ==
    \/ GetAuthCode
    \/ ServerStarts
    \/ ServerStartFails
    \/ BrowserReturns
    \/ RequestArrives
    \/ HandleRequest
    \/ TimeoutFires

\* a getAuthCode call of HapiOAuthHandler (src/utils/HapiOAuthHandler.ts)
SpecHandshake == InitHandshake /\ [][NextHandshake]_vars

---------------------------------------------------------------------------
(* C31  OAuth timeout (HapiOAuthHandler).  While getAuthCode's promise is   *)
(* pending the timer stays armed; when the timer fires with no callback    *)
(* request handled before it, the promise is rejected with 'OAuth           *)
(* authentication timed out. Please try again.', and from then on the       *)
(* timer is no longer armed, timeoutId and server are null and the         *)
(* callback server has been stopped.                                        *)

C31_TimeoutRejects ==
    /\ promise.state = "pending" => timer = "armed"
    /\ \A x \in 1..Len(events) :
          ( /\ events[x].kind = "timeout"
            /\ \A y \in 1..(x - 1) : events[y].kind # "callback" ) =>
             /\ promise = Rejected(<< "OAuth authentication timed out. Please try again." >>)
             /\ timer = "fired"
             /\ ~handler.timeoutId
             /\ ~handler.server
             /\ listener = "stopped"

\* The server started, the browser was opened, no request came and the
\* timer fired.
C31_Witness ==
    /\ handlerClass = "hapi"
    /\ chain = "open"
    /\ events = << Event("timeout", NoQuery) >>
    /\ promise.state = "rejected"

---------------------------------------------------------------------------
(* C32  Callback outcome (HapiOAuthHandler)                                 *)

\* the first completion event of the handshake is a handled callback request
FirstIsCallback == events # << >> /\ events[1].kind = "callback"

\* after the handler of a callback request ran: the timer is cleared, the
\* server stopped, and resolvePromise and rejectPromise are still assigned
CleanedKeepingCallbacks ==
    /\ ~handler.timeoutId
    /\ timer = "cleared"
    /\ ~handler.server
    /\ listener = "stopped"
    /\ handler.resolvePromise
    /\ handler.rejectPromise

OAuthErrorPrefix(query) == << "OAuth error: " >> \o query.error.text \o << " - " >>

\* C32 as claimed: cleanup clears the timer and stops the server but keeps
\* the callbacks, so a callback request with a code resolves getAuthCode with
\* exactly that code, one with an error parameter rejects it with 'OAuth
\* error: <error> - <description>', and one with neither rejects it with
\* 'Authorization code not found in callback URL'.
C32_CallbackOutcomeByParameter ==
    FirstIsCallback =>
       LET query == events[1].query
       IN  /\ CleanedKeepingCallbacks
           /\ Truthy(query.code) => promise = Resolved(query.code)
           /\ Truthy(query.error) =>
                 /\ promise.state = "rejected"
                 /\ Prefix(promise.message, 3) = OAuthErrorPrefix(query)
                 /\ Truthy(query.error_description) =>
                       promise.message = OAuthErrorPrefix(query) \o query.error_description.text
           /\ (~Truthy(query.code) /\ ~Truthy(query.error)) =>
                 promise = Rejected(<< "Authorization code not found in callback URL" >>)

\* C32 as amended: cleanup clears the timer and stops the server but keeps
\* the callbacks, so the first callback request handled settles getAuthCode:
\* with an error parameter (whether or not it also carries a code) it is
\* rejected with 'OAuth error: <error> - <description>', the description
\* being 'Unknown error' when none is given; with a code and no error it is
\* resolved with exactly that code; with neither it is rejected with
\* 'Authorization code not found in callback URL'.
C32_CallbackOutcome ==
    FirstIsCallback =>
       LET query == events[1].query
       IN  /\ CleanedKeepingCallbacks
           /\ IF Truthy(query.error)
                THEN promise =
                       Rejected(OAuthErrorPrefix(query) \o
                                (IF Truthy(query.error_description)
                                   THEN query.error_description.text
                                   ELSE << "Unknown error" >>))
                ELSE IF Truthy(query.code)
                       THEN promise = Resolved(query.code)
                       ELSE promise =
                              Rejected(<< "Authorization code not found in callback URL" >>)

\* The first callback request carried the code "42" and no error.
C32_Witness ==
    /\ handlerClass = "hapi"
    /\ FirstIsCallback
    /\ events[1].query.code = Str(<< "4", "2" >>)
    /\ events[1].query.error = Undefined
    /\ promise = Resolved(Str(<< "4", "2" >>))

---------------------------------------------------------------------------
(* C33  Single fulfilment of the handshake (HapiOAuthHandler).  The promise *)
(* of one getAuthCode call is pending exactly until the first completion   *)
(* event (a handled callback, a failed server start, the timeout); once    *)
(* settled it never changes; after the first completion the timer is not   *)
(* armed, so a timeout is only ever the first completion event (it never   *)
(* follows a handled callback), and a callback handled after the timeout   *)
(* leaves the outcome as the timeout set it.                                *)

PromiseSettled == promise.state \in {"resolved", "rejected"}

C33_SingleFulfilment ==
    /\ [][PromiseSettled => promise' = promise]_vars
    /\ [](promise.state # "none" => (PromiseSettled <=> events # << >>))
    /\ [](events # << >> => timer # "armed")
    /\ [](\A x \in 1..Len(events) : events[x].kind = "timeout" => x = 1)

\* The timer fired while a request was accepted; its handler ran afterwards,
\* carrying a code, and the promise is still rejected with the timeout.
C33_Witness ==
    /\ handlerClass = "hapi"
    /\ Len(events) = 2
    /\ events[1].kind = "timeout"
    /\ events[2].kind = "callback"
    /\ Truthy(events[2].query.code)
    /\ ~Truthy(events[2].query.error)
    /\ promise.state = "rejected"
    /\ promise.message = TimedOut

---------------------------------------------------------------------------
(* C34  Terminal job statuses are final: once the status of an album's job  *)
(* is completed or failed, no later step of that album's transfer changes  *)
(* it, the job write that follows the status change included.               *)

TerminalStatuses == {"completed", "failed"}

C34_TerminalStatusFinal ==
    [][(job.status \in TerminalStatuses /\ k' = k) => job'.status = job.status]_vars

---------------------------------------------------------------------------
(* C35  Every photo of an album fails in a live run.  Whatever made          *)
(* getPhoto or uploadPhoto throw, and as long as the album's job writes     *)
(* succeed, transferAlbum does not fail: no membership request is made,    *)
(* and once it has returned the last job record is completed with          *)
(* processedPhotos = totalPhotos = the number of photos, and transferAlbums *)
(* is at its loop again, entering the next album if there is one.           *)

FailedPhotos(a) ==
    Cardinality({ x \in 1..Len(log) : PhotoFailed(log[x]) /\ log[x].album = albums[a].id })

EveryPhotoFailed(a) ==
    /\ ~options.dryRun
    /\ Len(albums[a].photos) >= 1
    /\ FailedPhotos(a) = Len(albums[a].photos)

WritesSucceeded(a) == \A x \in 1..Len(log) :
    (log[x].op = "saveJob" /\ log[x].album = albums[a].id) => log[x].ok

C35_AllPhotosFailedStillCompletes ==
    \A a \in 1..k :
       (EveryPhotoFailed(a) /\ WritesSucceeded(a)) =>
          /\ \A x \in 1..Len(log) :
                log[x].album = albums[a].id =>
                   log[x].op \notin {"addPhotosToAlbum", "batchAddMediaItems"}
          /\ a = k => pc \notin {"saveFailed", "rejected", "thrown"}
          /\ (a = k /\ pc = "done") => k = Len(albums)
          /\ ReturnedNormally(a) =>
                /\ JobCompleted(a)
                /\ Last(Persisted(albums[a].id)).job.processedPhotos = Len(albums[a].photos)
                /\ Last(Persisted(albums[a].id)).job.totalPhotos = Len(albums[a].photos)

\* Both photos of the first album failed, one in getPhoto and one in
\* uploadPhoto; its job is completed and the second album has been entered.
C35_Witness ==
    /\ revision = "tracked"
    /\ k = 2
    /\ Len(albums[1].photos) = 2
    /\ EveryPhotoFailed(1)
    /\ \E x, y \in 1..Len(log) :
          /\ log[x].album = albums[1].id /\ log[x].op = "getPhoto" /\ ~log[x].ok
          /\ log[y].album = albums[1].id /\ log[y].op = "uploadPhoto" /\ ~log[y].ok
    /\ JobCompleted(1)
    /\ Last(Persisted(albums[1].id)).job.processedPhotos = 2

---------------------------------------------------------------------------
(* C36  Termination.  With every call returning or throwing at last, the   *)
(* transferAlbum of each album the run enters comes to an end: it returns   *)
(* (the run is back in transferAlbums' loop, or done) or its album-level    *)
(* failure is rethrown (the run is rejected); and at no time has an album   *)
(* with N photos seen more than ceil(N / B) chunk iterations, B >= 1 being *)
(* the batch size.                                                          *)

ChunkIterations(a) == Len(AlbumEntries("processPhotoBatch", albums[a].id))

TransferAlbumEnded(a) == k = a /\ pc \in {"albums", "done", "rejected"}

C36_TransferAlbumTerminates ==
    /\ \A a \in 1..MaxAlbums : (k = a) ~> TransferAlbumEnded(a)
    /\ [](\A a \in 1..k :
            /\ BatchSizeOf(options) >= 1
            /\ ChunkIterations(a) <= CeilDiv(Len(albums[a].photos), BatchSizeOf(options))
            /\ (TransferAlbumEnded(a) /\ pc # "rejected") =>
                  ChunkIterations(a) = CeilDiv(Len(albums[a].photos), BatchSizeOf(options)))

\* An album of three photos, batch size 2, has returned after two chunks.
C36_Witness ==
    /\ revision = "paced"
    /\ k = 1
    /\ pc = "albums"
    /\ Len(albums[1].photos) = 3
    /\ options.batchSize = 2
    /\ ChunkIterations(1) = 2

---------------------------------------------------------------------------
(* The handshake of the classes whose cleanup() nulls the callbacks: the   *)
(* earlier HapiOAuthHandler and OAuthCallbackHandler.  Every callback of    *)
(* the event loop that is ready runs at last: the started server answers,  *)
(* an accepted request is handled, an armed timer fires.                    *)

InitHandshakeEarlier == InitHandshakeOf({"hapi_nulling", "http"})

EventLoopRuns ==
    /\ WF_vars(GetAuthCode)
    /\ WF_vars(ServerStarts \/ ServerStartFails)
    /\ WF_vars(BrowserReturns)
    /\ WF_vars(HandleRequest)
    /\ WF_vars(TimeoutFires)

SpecHandshakeEarlier == InitHandshakeEarlier /\ [][NextHandshake]_vars /\ EventLoopRuns

---------------------------------------------------------------------------
(* C37  For the earlier HapiOAuthHandler and OAuthCallbackHandler every     *)
(* getAuthCode call settles at last, and once a callback request has been  *)
(* handled or the timer has fired the promise is resolved or rejected.      *)

C37_EveryCallSettles ==
    /\ (promise.state = "pending") ~> (promise.state \in {"resolved", "rejected"})
    /\ [](events # << >> => promise.state \in {"resolved", "rejected"})

---------------------------------------------------------------------------
(* FlickrService: the OAuth server's handlers handleOAuthStart and          *)
(* handleOAuthCallback.  Both are async: a handler runs to its await, other *)
(* requests may be handled meanwhile, and it goes on when the call returns. *)

\* how many requests (GET /, GET /oauth/callback) the server gets
MaxOAuthRequests == 4

\* everything but the Flickr OAuth server
BesidesFlickrOAuth == << Transfer, Handshake, Gate, Authentication >>

\* the access-token id of tokens the service was constructed with
\* (credentials.oauthTokens of an earlier authentication)
PriorToken == 100

\* what oauth.verify answers for request token t: { nsid, oauthToken,
\* oauthTokenSecret }, made into FlickrOAuthTokens
AccessTokens(t) == [oauthToken |-> t, oauthTokenSecret |-> t, userId |-> t]

\* !!(this.oauthTokens?.oauthToken && this.oauthTokens?.oauthTokenSecret)
isAuthenticated(tokens) == tokens.oauthToken # 0 /\ tokens.oauthTokenSecret # 0

\* oauth_token of a callback: absent (0), a token Flickr issued so far, or
\* one it did not issue
CallbackTokens == 0..(issued + 1)

\* a request being handled: its handler, where it waits, and the callback's
\* oauth_token (the secret passed on to completeOAuthFlow goes with it)
Flight(kind, at, token) == [kind |-> kind, at |-> at, token |-> token]

FlightsOf(kind) == { f \in 1..Len(flights) : flights[f].kind = kind }

\* one step of a handler, as the history keeps it: the request token
\* concerned, whether the callback had a verifier, the request token stored
\* when the step began, the status answered (0: no answer yet) and
\* oauthTokens before and after the step
OAuthStep(ev, f, token, verifier, status, after) ==
    [ ev |-> ev, flight |-> f, token |-> token, verifier |-> verifier,
      stored |-> currentRequestToken, status |-> status,
      before |-> oauthTokens, after |-> after ]

\* Mutant: any stored request token lets the callback through
ValidRequestToken_AnyStored(stored, given) == stored # 0

\* !( !this.currentRequestToken || !this.currentRequestTokenSecret ||
\*    this.currentRequestToken !== requestToken )
ValidRequestToken(stored, given) == stored # 0 /\ stored = given

\* GET /: handleOAuthStart calls startOAuthFlow, which awaits oauth.request
HandleOAuthStart ==
    /\ Len(flights) < MaxOAuthRequests
    /\ flights' = Append(flights, Flight("start", "request", 0))
    /\ UNCHANGED << BesidesFlickrOAuth, currentRequestToken, oauthTokens, issued, oauthTrace >>

\* oauth.request returns a new request token and secret, which are stored
\* and the browser redirected (302); or it throws and the answer is 400
OAuthRequestReturns ==
    \E f \in FlightsOf("start") :
       /\ flights[f].at = "request"
       /\ \/ /\ issued' = issued + 1
             /\ currentRequestToken' = issued + 1
             /\ flights' = [flights EXCEPT ![f] = Flight("start", "answered", issued + 1)]
             /\ oauthTrace' = Append(oauthTrace,
                                     OAuthStep("stored", f, issued + 1, FALSE, 302, oauthTokens))
          \/ /\ flights' = [flights EXCEPT ![f] = Flight("start", "answered", 0)]
             /\ oauthTrace' = Append(oauthTrace,
                                     OAuthStep("startFailed", f, 0, FALSE, 400, oauthTokens))
             /\ UNCHANGED << issued, currentRequestToken >>
       /\ UNCHANGED << BesidesFlickrOAuth, oauthTokens >>

\* GET /oauth/callback?oauth_token=...&oauth_verifier=...: 400 'Missing
\* oauth_token or oauth_verifier', 400 'Invalid request token', or
\* completeOAuthFlow is called, which awaits oauth.verify(verifier)
HandleOAuthCallback ==
    /\ Len(flights) < MaxOAuthRequests
    /\ \E token \in CallbackTokens, verifier \in BOOLEAN :
         LET f == Len(flights) + 1
         IN  IF token # 0 /\ verifier /\ ValidRequestToken(currentRequestToken, token)
               THEN /\ flights' = Append(flights, Flight("callback", "verify", token))
                    /\ oauthTrace' = Append(oauthTrace,
                                            OAuthStep("callback", f, token, verifier, 0, oauthTokens))
               ELSE /\ flights' = Append(flights, Flight("callback", "answered", token))
                    /\ oauthTrace' = Append(oauthTrace,
                                            OAuthStep("callback", f, token, verifier, 400, oauthTokens))
    /\ UNCHANGED << BesidesFlickrOAuth, currentRequestToken, oauthTokens, issued >>

\* oauth.verify returns: completeOAuthFlow sets this.oauthTokens, the handler
\* clears the stored request token, calls setOAuthTokens(tokens) and awaits
\* getAuthenticatedUser; or it throws and the answer is 400 'OAuth callback
\* failed'
OAuthVerifyReturns ==
    \E f \in FlightsOf("callback") :
       /\ flights[f].at = "verify"
       /\ \/ /\ oauthTokens' = AccessTokens(flights[f].token)
             /\ currentRequestToken' = 0
             /\ flights' = [flights EXCEPT ![f].at = "login"]
             /\ oauthTrace' = Append(oauthTrace,
                                     OAuthStep("installed", f, flights[f].token, TRUE, 0,
                                               AccessTokens(flights[f].token)))
          \/ /\ flights' = [flights EXCEPT ![f].at = "answered"]
             /\ oauthTrace' = Append(oauthTrace,
                                     OAuthStep("verifyFailed", f, flights[f].token, TRUE, 400,
                                               oauthTokens))
             /\ UNCHANGED << oauthTokens, currentRequestToken >>
       /\ UNCHANGED << BesidesFlickrOAuth, issued >>

\* getAuthenticatedUser returns ('OAuth Success!', 200) or throws (400)
OAuthLoginReturns ==
    \E f \in FlightsOf("callback") :
       /\ flights[f].at = "login"
       /\ flights' = [flights EXCEPT ![f].at = "answered"]
       /\ \E status \in {200, 400} :
            oauthTrace' = Append(oauthTrace,
                                 OAuthStep("login", f, flights[f].token, TRUE, status, oauthTokens))
       /\ UNCHANGED << BesidesFlickrOAuth, currentRequestToken, oauthTokens, issued >>

InitFlickrOAuth ==
    /\ NoTransfer
    /\ NoAuthentication
    /\ NoGate
    /\ NoHandshake
    /\ currentRequestToken = 0
    /\ oauthTokens \in { NoTokens, AccessTokens(PriorToken) }
    /\ flights = << >>
    /\ issued = 0
    /\ oauthTrace = << >>

NextFlickrOAuth ==
    \/ HandleOAuthStart
    \/ OAuthRequestReturns
    \/ HandleOAuthCallback
    \/ OAuthVerifyReturns
    \/ OAuthLoginReturns

\* the OAuth server of FlickrService handling requests
SpecFlickrOAuth == InitFlickrOAuth /\ [][NextFlickrOAuth]_vars

\* the steps of the history of kind ev
OAuthSteps(ev) == { n \in 1..Len(oauthTrace) : oauthTrace[n].ev = ev }

\* the callback had both parameters and its oauth_token is the stored one
PassesCallbackCheck(e) ==
    e.token # 0 /\ e.verifier /\ e.stored # 0 /\ e.stored = e.token

\* C38: handleOAuthCallback goes on to exchange the verifier only if a
\* request token is stored and equals the callback's oauth_token, otherwise
\* it answers 400; oauthTokens (and isAuthenticated()) change only where a
\* callback that passed this check, for a token a preceding handleOAuthStart
\* stored, installs the tokens of the exchange.
C38_CallbackGuard ==
    /\ \A n \in OAuthSteps("callback") :
          LET e == oauthTrace[n]
          IN  /\ e.status = (IF PassesCallbackCheck(e) THEN 0 ELSE 400)
              /\ e.after = e.before
    /\ \A n \in OAuthSteps("installed") :
          \E c \in OAuthSteps("callback") :
             /\ c < n
             /\ oauthTrace[c].flight = oauthTrace[n].flight
             /\ oauthTrace[c].token = oauthTrace[n].token
             /\ PassesCallbackCheck(oauthTrace[c])
             /\ \E s \in OAuthSteps("stored") :
                   s < c /\ oauthTrace[s].token = oauthTrace[c].token
    /\ \A n \in 1..Len(oauthTrace) :
          LET e == oauthTrace[n]
          IN  /\ e.ev # "installed" =>
                    /\ e.after = e.before
                    /\ (e.after.oauthToken # 0 /\ e.after.oauthTokenSecret # 0)
                         = (e.before.oauthToken # 0 /\ e.before.oauthTokenSecret # 0)
              /\ n > 1 => e.before = oauthTrace[n - 1].after
              /\ n = Len(oauthTrace) => oauthTokens = e.after

\* two starts stored tokens 1 and 2; the callback of the first answered 400
\* and left the service unauthenticated, the callback of the second
\* installed its tokens
C38_Witness ==
    /\ \E s1, s2 \in OAuthSteps("stored"), c1, c2 \in OAuthSteps("callback"),
          n \in OAuthSteps("installed") :
          /\ s1 < s2 /\ s2 < c1 /\ c1 < c2 /\ c2 < n
          /\ oauthTrace[c1].token = oauthTrace[s1].token
          /\ oauthTrace[c1].verifier
          /\ oauthTrace[c1].status = 400
          /\ ~ isAuthenticated(oauthTrace[c1].after)
          /\ oauthTrace[c2].token = oauthTrace[s2].token
          /\ oauthTrace[n].token = oauthTrace[s2].token
    /\ isAuthenticated(oauthTokens)

---------------------------------------------------------------------------
(* GooglePhotosService: ensureAuthenticated before every request.          *)
(* makeRequest stands for the methods that only call it (createAlbum,      *)
(* getAlbums, addBatchOfPhotosToAlbum); uploadPhoto sends the raw upload   *)
(* itself and then calls makeRequest for mediaItems:batchCreate.           *)

\* how many methods of the service are called
MaxGateCalls == 2

\* how far Date.now() goes
MaxClock == 3

\* everything but GooglePhotosService
BesidesGate == << Transfer, Handshake, FlickrOAuth, Authentication >>

GateMethods == {"makeRequest", "uploadPhoto"}

NotAuthenticated == "Not authenticated. Please run \"flickr-to-google authenticate\" first."
AuthenticationExpired == "Authentication expired. Please run \"flickr-to-google authenticate\" again."
RequestFailed == "request failed"

\* what refreshAccessToken stores when it succeeds: a new access token that
\* expires later than now
Refreshed(now) == [access_token |-> TRUE, expiry_date |-> now + 1]

\* Mutant: the expiry time is never looked at
Expired_Never(c, now) == FALSE

\* this.auth.credentials.expiry_date && Date.now() >= this.auth.credentials.expiry_date
Expired(c, now) == c.expiry_date # 0 /\ now >= c.expiry_date

\* one step of a method, as the history keeps it, with the credentials and
\* the time when the step began
GateStep(ev, message) ==
    [ ev |-> ev, call |-> gateCalls, op |-> gate.op, part |-> gate.part,
      access_token |-> auth.access_token, expiry_date |-> auth.expiry_date,
      now |-> clock, message |-> message ]

\* time passes
Tick ==
    /\ clock < MaxClock
    /\ clock' = clock + 1
    /\ UNCHANGED << BesidesGate, auth, gate, gateCalls, gateTrace >>

\* a method is called; both begin with await this.ensureAuthenticated()
CallGateMethod ==
    /\ gate = NoGateCall
    /\ gateCalls < MaxGateCalls
    /\ gateCalls' = gateCalls + 1
    /\ \E op \in GateMethods : gate' = [op |-> op, at |-> "gate", part |-> 1]
    /\ UNCHANGED << BesidesGate, auth, clock, gateTrace >>

\* ensureAuthenticated up to its await: throws without an access token,
\* calls refreshAccessToken when the expiry time has passed, else returns
EnsureAuthenticated ==
    /\ gate.at = "gate"
    /\ IF ~ auth.access_token
         THEN /\ gate' = NoGateCall
              /\ gateTrace' = Append(gateTrace, GateStep("denied", NotAuthenticated))
         ELSE IF Expired(auth, clock)
                THEN /\ gate' = [gate EXCEPT !.at = "refresh"]
                     /\ gateTrace' = Append(gateTrace, GateStep("refreshing", ""))
                ELSE /\ gate' = [gate EXCEPT !.at = "request"]
                     /\ gateTrace' = Append(gateTrace, GateStep("passed", ""))
    /\ UNCHANGED << BesidesGate, auth, clock, gateCalls >>

\* refreshAccessToken returns, or throws and ensureAuthenticated throws
\* 'Authentication expired...', which the method passes on
RefreshReturns ==
    /\ gate.at = "refresh"
    /\ \/ /\ auth' = Refreshed(clock)
          /\ gate' = [gate EXCEPT !.at = "request"]
          /\ gateTrace' = Append(gateTrace, GateStep("refreshed", ""))
       \/ /\ gate' = NoGateCall
          /\ gateTrace' = Append(gateTrace, GateStep("refreshFailed", AuthenticationExpired))
          /\ UNCHANGED auth
    /\ UNCHANGED << BesidesGate, clock, gateCalls >>

\* this.auth.request(options) is sent and answered.  The raw upload of
\* uploadPhoto, when it succeeds, is followed by makeRequest, which begins
\* with ensureAuthenticated again; a failed request is thrown on
SendRequest ==
    /\ gate.at = "request"
    /\ \/ /\ gate' = IF gate.op = "uploadPhoto" /\ gate.part = 1
                       THEN [gate EXCEPT !.at = "gate", !.part = 2]
                       ELSE NoGateCall
          /\ gateTrace' = Append(gateTrace, GateStep("sent", ""))
       \/ /\ gate' = NoGateCall
          /\ gateTrace' = Append(gateTrace, GateStep("sent", RequestFailed))
    /\ UNCHANGED << BesidesGate, auth, clock, gateCalls >>

\* the constructor sets the credentials only when the configuration has an
\* access token and a refresh token; tokenExpiry may be absent
InitGate ==
    /\ NoTransfer
    /\ NoAuthentication
    /\ NoHandshake
    /\ NoFlickrOAuth
    /\ auth \in { NoCredentials } \cup
                { [access_token |-> TRUE, expiry_date |-> e] : e \in 0..MaxClock }
    /\ clock = 1
    /\ gate = NoGateCall
    /\ gateCalls = 0
    /\ gateTrace = << >>

NextGate ==
    \/ Tick
    \/ CallGateMethod
    \/ EnsureAuthenticated
    \/ RefreshReturns
    \/ SendRequest

\* GooglePhotosService serving calls, one after the other, while time passes
SpecGate == InitGate /\ [][NextGate]_vars

\* the expiry time stored when step e began had passed
ExpiredWhen(e) == e.expiry_date # 0 /\ e.now >= e.expiry_date

\* steps n and m belong to the same request of the same call
SameRequest(n, m) ==
    /\ gateTrace[n].call = gateTrace[m].call
    /\ gateTrace[n].part = gateTrace[m].part

\* C39: a request is sent only with an access token present and right after
\* its ensureAuthenticated either found the expiry time not passed or
\* refreshed the token; an expired token is always refreshed first; without
\* an access token, or when the refresh fails, nothing more is sent by the
\* call, which fails with 'Not authenticated...' or 'Authentication expired.
\* Please run "flickr-to-google authenticate" again.'
C39_AuthenticationGate ==
    /\ gate.at = "request" => auth.access_token
    /\ \A n \in 1..Len(gateTrace) :
          LET e == gateTrace[n]
          IN  /\ e.ev = "sent" =>
                    /\ e.access_token
                    /\ n > 1
                    /\ SameRequest(n - 1, n)
                    /\ \/ /\ gateTrace[n - 1].ev = "passed"
                          /\ gateTrace[n - 1].access_token
                          /\ ~ ExpiredWhen(gateTrace[n - 1])
                       \/ /\ gateTrace[n - 1].ev = "refreshed"
                          /\ n > 2
                          /\ SameRequest(n - 2, n)
                          /\ gateTrace[n - 2].ev = "refreshing"
              /\ e.ev \in {"denied", "refreshing", "passed"} =>
                    e.ev = IF ~ e.access_token THEN "denied"
                           ELSE IF ExpiredWhen(e) THEN "refreshing" ELSE "passed"
              /\ e.ev = "refreshing" /\ n < Len(gateTrace) =>
                    /\ gateTrace[n + 1].ev \in {"refreshed", "refreshFailed"}
                    /\ SameRequest(n, n + 1)
              /\ e.ev \in {"refreshed", "refreshFailed"} =>
                    n > 1 /\ gateTrace[n - 1].ev = "refreshing" /\ SameRequest(n - 1, n)
              /\ e.ev = "denied" => e.message = NotAuthenticated
              /\ e.ev = "refreshFailed" => e.message = AuthenticationExpired
              /\ e.ev \in {"denied", "refreshFailed"} =>
                    \A m \in (n + 1)..Len(gateTrace) : gateTrace[m].call # e.call

\* a call whose token had expired refreshed it and sent its request; the
\* next call found the new token expired too, its refresh failed and it
\* sent nothing
C39_Witness ==
    /\ gate = NoGateCall
    /\ gateCalls = 2
    /\ Len(gateTrace) = 5
    /\ gateTrace[1].ev = "refreshing" /\ ExpiredWhen(gateTrace[1])
    /\ gateTrace[2].ev = "refreshed"
    /\ gateTrace[3].ev = "sent" /\ gateTrace[3].call = 1
    /\ gateTrace[4].ev = "refreshing" /\ gateTrace[4].call = 2
    /\ gateTrace[5].ev = "refreshFailed"
    /\ gateTrace[5].message = AuthenticationExpired

---------------------------------------------------------------------------
(* ConfigManager.authenticate: load the configuration, get an              *)
(* authorization code through getAuthCode of the package oauth-callback,   *)
(* exchange it for tokens, save them.                                      *)

\* how many times authenticate is called
MaxAuthentications == 2

\* everything but ConfigManager.authenticate and the file
BesidesAuthentication == << Pipeline, Handshake, FlickrOAuth, Gate >>

ConfigurationNotFound == "Configuration not found. Please run \"flickr-to-google setup\" first."
GoogleCredentialsNotFound == "Google credentials not found. Please run \"flickr-to-google setup\" first."
NoAuthorizationCode == "No authorization code received"
MissingTokens == "Failed to obtain required tokens from Google"
AuthenticationTimedOut == "Authentication timed out. Please try again."
FailedToSaveConfig == "Failed to save config"

\* what getAuthCode of oauth-callback may do: resolve with a code, resolve
\* without one, reject because of its timeout, reject because the callback
\* reported an error
AuthCodeOutcomes == {"code", "no code", "timeout", "access_denied"}

\* catch (error): a message that includes 'timeout' is replaced
Rethrown(message) ==
    IF message = "timeout" THEN AuthenticationTimedOut ELSE message

\* tokenResponse.tokens of getToken, for the n-th call: each token may be
\* missing, expiry_date too
TokenResponses(n) ==
    [ access_token : {0, n}, refresh_token : {0, n}, expiry_date : {0, n} ]

\* a file that a failed write left behind
Unreadable(file) == [file EXCEPT !.state = "unreadable"]

\* loadConfig: null unless the file exists and reads as JSON
loadConfig(file) == IF file.state = "config" THEN file ELSE NoConfigFile

\* what checkTransferStatus and the services make of the file
StoredState(file) ==
    IF loadConfig(file) = NoConfigFile THEN "missing"
    ELSE IF file.accessToken # 0 /\ file.refreshToken # 0 THEN "authenticated"
    ELSE "unauthenticated"

\* Mutant: an access token is enough
HasRequiredTokens_AccessOnly(t) == t.access_token # 0

\* !( !tokens.access_token || !tokens.refresh_token )
HasRequiredTokens(t) == t.access_token # 0 /\ t.refresh_token # 0

\* tokens.expiry_date ? tokens.expiry_date : Date.now() + 3600 * 1000
TokenExpiry(t, now) == IF t.expiry_date # 0 THEN t.expiry_date ELSE now + 3600 * 1000

\* config.credentials.google.accessToken = ...; refreshToken; tokenExpiry
WithTokens(config, t, now) ==
    [config EXCEPT !.accessToken = t.access_token,
                   !.refreshToken = t.refresh_token,
                   !.tokenExpiry = TokenExpiry(t, now)]

\* one step of authenticate, as the history keeps it: the file before and
\* after it, the tokens of the exchange, the message thrown ("": none)
AuthStep(ev, after, message) ==
    [ ev |-> ev, call |-> authCalls, before |-> configFile, after |-> after,
      tokens |-> authentication.tokens, message |-> message ]

\* authenticate throws: the call is over
Throws(ev, message) ==
    /\ authentication' = NoAuthenticateCall
    /\ authTrace' = Append(authTrace, AuthStep(ev, configFile, message))
    /\ UNCHANGED << configFile, credentials >>

\* authenticate is called: loadConfig, the two checks, then getAuthCode
Authenticate ==
    /\ authentication.at = "idle"
    /\ authCalls < MaxAuthentications
    /\ authCalls' = authCalls + 1
    /\ LET config == loadConfig(configFile)
       IN  IF config = NoConfigFile
             THEN /\ authentication' = NoAuthenticateCall
                  /\ authTrace' = Append(authTrace,
                                         [AuthStep("noConfig", configFile, ConfigurationNotFound)
                                            EXCEPT !.call = authCalls + 1])
             ELSE IF ~ config.clientId \/ ~ config.clientSecret
               THEN /\ authentication' = NoAuthenticateCall
                    /\ authTrace' = Append(authTrace,
                                           [AuthStep("noClient", configFile, GoogleCredentialsNotFound)
                                              EXCEPT !.call = authCalls + 1])
               ELSE /\ authentication' = [NoAuthenticateCall EXCEPT
                                            !.at = "getAuthCode", !.config = config]
                    /\ UNCHANGED authTrace
    /\ UNCHANGED << BesidesAuthentication, configFile, credentials >>

\* getAuthCode returns { code } or rejects
GetAuthCodeReturns ==
    /\ authentication.at = "getAuthCode"
    /\ \E outcome \in AuthCodeOutcomes :
         CASE outcome = "code" ->
                /\ authentication' = [authentication EXCEPT !.at = "getToken"]
                /\ UNCHANGED << authTrace, configFile, credentials >>
           [] outcome = "no code" -> Throws("noCode", NoAuthorizationCode)
           [] OTHER -> Throws(outcome, Rethrown(outcome))
    /\ UNCHANGED << BesidesAuthentication, authCalls >>

\* oauth2Client.getToken(code) returns or throws; with both tokens the
\* config is changed and saveConfig called
GetTokenReturns ==
    /\ authentication.at = "getToken"
    /\ \/ \E t \in TokenResponses(authCalls) :
            IF HasRequiredTokens(t)
              THEN /\ authentication' =
                        [authentication EXCEPT
                           !.at = "saveConfig", !.tokens = t,
                           !.config = WithTokens(authentication.config, t, clock)]
                   /\ UNCHANGED << authTrace, configFile, credentials >>
              ELSE /\ authentication' = NoAuthenticateCall
                   /\ authTrace' = Append(authTrace,
                                          [AuthStep("missingToken", configFile, MissingTokens)
                                             EXCEPT !.tokens = t])
                   /\ UNCHANGED << configFile, credentials >>
       \/ Throws("getTokenFailed", "invalid_grant")
    /\ UNCHANGED << BesidesAuthentication, authCalls >>

\* fs.writeJson(configPath, config) writes the file, or fails, leaving it
\* as it was or unreadable, and saveConfig throws
SaveConfigReturns ==
    /\ authentication.at = "saveConfig"
    /\ \/ /\ configFile' = authentication.config
          /\ authTrace' = Append(authTrace, AuthStep("saved", authentication.config, ""))
       \/ \E left \in { configFile, Unreadable(configFile) } :
            /\ configFile' = left
            /\ authTrace' = Append(authTrace, AuthStep("saveFailed", left, FailedToSaveConfig))
    /\ credentials' = StoredState(configFile')
    /\ authentication' = NoAuthenticateCall
    /\ UNCHANGED << BesidesAuthentication, authCalls >>

\* the file before the first call: absent, or written by setup (the prompts
\* make both client fields non-empty; a file edited by hand may lack one),
\* with or without tokens of an earlier authentication
InitAuthenticate ==
    /\ NoPipeline
    /\ NoHandshake
    /\ NoFlickrOAuth
    /\ NoGate
    /\ configFile \in { NoConfigFile } \cup
                      { ConfigFile(id, secret, token, token) :
                          id \in BOOLEAN, secret \in BOOLEAN, token \in {0, StoredToken} }
    /\ credentials = StoredState(configFile)
    /\ authentication = NoAuthenticateCall
    /\ authCalls = 0
    /\ authTrace = << >>

NextAuthenticate ==
    \/ Authenticate
    \/ GetAuthCodeReturns
    \/ GetTokenReturns
    \/ SaveConfigReturns

\* the authenticate command, run again and again
SpecAuthenticate == InitAuthenticate /\ [][NextAuthenticate]_vars

\* the ways authenticate fails that leave the exchange without both tokens
FailedHandshake == {"timeout", "access_denied", "noCode", "missingToken"}

\* the token fields of the file differ
TokensDiffer(f, g) ==
    \/ f.accessToken # g.accessToken
    \/ f.refreshToken # g.refreshToken
    \/ f.tokenExpiry # g.tokenExpiry

\* C40: authenticate changes the tokens of the stored configuration only by
\* saving the access token and the refresh token that the exchange yielded,
\* both present; when getAuthCode times out or reports an error, no code
\* is received or a token is missing, it throws and the file stays as it was.
C40_TokensWrittenOnlyWithBoth ==
    /\ authentication.at = "saveConfig" =>
          /\ authentication.tokens.access_token # 0
          /\ authentication.tokens.refresh_token # 0
    /\ \A n \in 1..Len(authTrace) :
          LET e == authTrace[n]
          IN  /\ n > 1 => e.before = authTrace[n - 1].after
              /\ n = Len(authTrace) => configFile = e.after
              /\ e.ev = "saved" =>
                    /\ e.tokens.access_token # 0
                    /\ e.tokens.refresh_token # 0
                    /\ e.message = ""
              /\ TokensDiffer(e.before, e.after) =>
                    /\ e.ev = "saved"
                    /\ e.after.accessToken = e.tokens.access_token
                    /\ e.after.refreshToken = e.tokens.refresh_token
              /\ e.ev \in FailedHandshake =>
                    /\ e.message # ""
                    /\ e.after = e.before
              /\ e.ev = "missingToken" =>
                    e.tokens.access_token = 0 \/ e.tokens.refresh_token = 0

\* with tokens of an earlier authentication stored, a first call timed out
\* and left them there; a second call got both tokens and saved them
C40_Witness ==
    /\ Len(authTrace) = 2
    /\ authTrace[1].ev = "timeout"
    /\ authTrace[1].message = AuthenticationTimedOut
    /\ authTrace[1].before.accessToken = StoredToken
    /\ authTrace[1].after = authTrace[1].before
    /\ authTrace[2].ev = "saved"
    /\ configFile.accessToken = 2
    /\ configFile.refreshToken = 2

===========================================================================
